---- MODULE Spec2Model ----
(***************************************************************************)
(* The detection pipeline of the ai-engine: AnomalyDetector,               *)
(* FailureDetector and the ModelService that owns them.                    *)
(*                                                                         *)
(* Numbers.  Every float of the program is a fixed-point integer counting  *)
(* thousandths: the score 0.5 is 500, the feature value 90 is 90000, the   *)
(* raw density score -0.25 is -250.  A comparison of a mean with a         *)
(* threshold is made on the sum (sum > t * n), so it is exact.             *)
(*                                                                         *)
(* Library objects.  The fitted IsolationForest, EllipticEnvelope and      *)
(* RandomForestClassifier are outside the repository: what they return for *)
(* a row (label, raw score, class probabilities, or an exception) is an    *)
(* input of the action that calls them.                                    *)
(***************************************************************************)
EXTENDS Integers, Sequences, FiniteSets, TLC

VARIABLES
    anomaly_detector,   \* ModelService.anomaly_detector: its fields
    failure_detector,   \* ModelService.failure_detector: its fields
    models_loaded,      \* ModelService.models_loaded
    result              \* the call the caller waits for or has got back:
                        \* operation, arguments, returned value; Idle between calls

vars == <<anomaly_detector, failure_detector, models_loaded, result>>

----------------------------------------------------------------------------
(* Fixed point *)

Scale == 1000

\* n as a float: 80 -> 80.0
Num(n) == n * Scale

\* n hundredths as a float: 50 -> 0.5
Pct(n) == n * (Scale \div 100)

Abs(x) == IF x < 0 THEN -x ELSE x

Min2(a, b) == IF a < b THEN a ELSE b

Max2(a, b) == IF a > b THEN a ELSE b

\* a list built entry by entry; its entries are computed once
List(entries) == entries \o <<>>

----------------------------------------------------------------------------
(* schemas/inference.py *)

LOW == "low"
MEDIUM == "medium"
HIGH == "high"
CRITICAL == "critical"

SeverityLevel == {LOW, MEDIUM, HIGH, CRITICAL}

SCALE_UP == "scale_up"
SCALE_DOWN == "scale_down"
RESTART_POD == "restart_pod"
THROTTLE_API == "throttle_api"
CLEAR_CACHE == "clear_cache"
NO_ACTION == "no_action"
ALERT_ADMIN == "alert_admin"

RemediationAction ==
    {SCALE_UP, SCALE_DOWN, RESTART_POD, THROTTLE_API, CLEAR_CACHE, NO_ACTION, ALERT_ADMIN}

\* Python's None where the other values are strings
None == "None"

\* an estimator that fit() has not fitted; a fitted one is the shape
\* <<n_samples, n_features>> of the data it was fitted on
Unfitted == <<>>

\* root_cause = None; a root cause is a sequence of messages
NoRootCause == <<>>

\* a message: its text and the number formatted into it (0 if none)
Msg(text, arg) == [text |-> text, arg |-> arg]

\* an empty dict
EmptyDict == [k \in {} |-> 0]

----------------------------------------------------------------------------
(* str.lower() and the substring test `kw in s` *)

LowerChar(c) ==
    CASE c = "A" -> "a" [] c = "B" -> "b" [] c = "C" -> "c" [] c = "D" -> "d"
      [] c = "E" -> "e" [] c = "F" -> "f" [] c = "G" -> "g" [] c = "H" -> "h"
      [] c = "I" -> "i" [] c = "J" -> "j" [] c = "K" -> "k" [] c = "L" -> "l"
      [] c = "M" -> "m" [] c = "N" -> "n" [] c = "O" -> "o" [] c = "P" -> "p"
      [] c = "Q" -> "q" [] c = "R" -> "r" [] c = "S" -> "s" [] c = "T" -> "t"
      [] c = "U" -> "u" [] c = "V" -> "v" [] c = "W" -> "w" [] c = "X" -> "x"
      [] c = "Y" -> "y" [] c = "Z" -> "z" [] OTHER -> c

RECURSIVE lower(_)
lower(s) ==
    IF Len(s) = 0 THEN ""
    ELSE LowerChar(SubSeq(s, 1, 1)) \o lower(SubSeq(s, 2, Len(s)))

\* kw in s
Contains(s, kw) ==
    \E i \in 1..(Len(s) - Len(kw) + 1) : SubSeq(s, i, i + Len(kw) - 1) = kw

----------------------------------------------------------------------------
(* dict(zip(feature_names, X[0])): zip stops at the shorter argument, a    *)
(* repeated name keeps its first position and its last value.              *)

ZipLen(feature_names, X) == Min2(Len(feature_names), Len(X))

\* the keys, in insertion order
RECURSIVE DictKeysUpTo(_, _)
DictKeysUpTo(feature_names, n) ==
    IF n = 0 THEN <<>>
    ELSE LET before == DictKeysUpTo(feature_names, n - 1)
         IN  IF \E i \in 1..(n - 1) : feature_names[i] = feature_names[n]
             THEN before
             ELSE Append(before, feature_names[n])

DictKeys(feature_names, X) == DictKeysUpTo(feature_names, ZipLen(feature_names, X))

\* feature_dict[k]
DictGet(feature_names, X, k) ==
    LET n == ZipLen(feature_names, X)
        last == CHOOSE i \in 1..n :
                    /\ feature_names[i] = k
                    /\ \A j \in (i + 1)..n : feature_names[j] # k
    IN  X[last]

\* [k for k in feature_dict.keys() if kw in k.lower()], as the set of those keys
KeysWith(feature_names, X, kw) ==
    LET keys == DictKeys(feature_names, X)
    IN  {keys[i] : i \in {j \in 1..Len(keys) : Contains(lower(keys[j]), kw)}}

RECURSIVE SumOver(_, _, _)
SumOver(feature_names, X, keys) ==
    IF keys = {} THEN 0
    ELSE LET k == CHOOSE k \in keys : TRUE
         IN  DictGet(feature_names, X, k) + SumOver(feature_names, X, keys \ {k})

\* (np.mean([feature_dict[k] for k in keys]) if keys else 0) > t
AvgGreater(feature_names, X, keys, t) ==
    IF keys = {} THEN 0 > t
    ELSE SumOver(feature_names, X, keys) > t * Cardinality(keys)

----------------------------------------------------------------------------
(* services/anomaly_detector.py *)

\* AnomalyDetector._normalize_score: min(1.0, max(0.0, (-score) * 2))
_normalize_score(score) == Min2(Num(1), Max2(0, (-score) * 2))

\* the bands with the boundaries excluded
_determine_severity_strict(anomaly_score) ==
    IF anomaly_score > Pct(90) THEN CRITICAL
    ELSE IF anomaly_score > Pct(70) THEN HIGH
    ELSE IF anomaly_score > Pct(50) THEN MEDIUM
    ELSE LOW

\* AnomalyDetector._determine_severity
_determine_severity(anomaly_score) ==
    IF anomaly_score >= Pct(90) THEN CRITICAL
    ELSE IF anomaly_score >= Pct(70) THEN HIGH
    ELSE IF anomaly_score >= Pct(50) THEN MEDIUM
    ELSE LOW

\* one average over the cpu and the memory features together
HighCpuOrMemory_combined(feature_names, X) ==
    LET both == KeysWith(feature_names, X, "cpu") \cup KeysWith(feature_names, X, "memory")
    IN  both # {} /\ AvgGreater(feature_names, X, both, Num(80))

\* both averages required to be high
HighCpuOrMemory_and(feature_names, X) ==
    LET cpu_features == KeysWith(feature_names, X, "cpu")
        memory_features == KeysWith(feature_names, X, "memory")
    IN  /\ cpu_features # {} \/ memory_features # {}
        /\ AvgGreater(feature_names, X, cpu_features, Num(80))
        /\ AvgGreater(feature_names, X, memory_features, Num(80))

\* "Check for high CPU/memory": the two averages are taken separately
HighCpuOrMemory(feature_names, X) ==
    LET cpu_features == KeysWith(feature_names, X, "cpu")
        memory_features == KeysWith(feature_names, X, "memory")
    IN  /\ cpu_features # {} \/ memory_features # {}
        /\ \/ AvgGreater(feature_names, X, cpu_features, Num(80))
           \/ AvgGreater(feature_names, X, memory_features, Num(80))

\* "Check for high error rate"
HighErrorRate(feature_names, X) ==
    LET error_features == KeysWith(feature_names, X, "error")
    IN  /\ error_features # {}
        /\ AvgGreater(feature_names, X, error_features, Num(10))

\* "Check for high request rate"
HighRequestRate(feature_names, X) ==
    LET request_features == KeysWith(feature_names, X, "request")
    IN  /\ request_features # {}
        /\ AvgGreater(feature_names, X, request_features, Num(1000))

\* the rules without the score check in front
_recommend_action_unguarded(anomaly_score, X, feature_names) ==
    IF feature_names = <<>> \/ Len(X) = 0 THEN ALERT_ADMIN
    ELSE IF HighCpuOrMemory(feature_names, X) THEN SCALE_UP
    ELSE IF HighErrorRate(feature_names, X) THEN RESTART_POD
    ELSE IF HighRequestRate(feature_names, X) THEN THROTTLE_API
    ELSE IF anomaly_score >= Pct(80) THEN ALERT_ADMIN
    ELSE NO_ACTION

\* the request rule tried before the error rule
_recommend_action_request_first(anomaly_score, X, feature_names) ==
    IF anomaly_score < Pct(50) THEN NO_ACTION
    ELSE IF feature_names = <<>> \/ Len(X) = 0 THEN ALERT_ADMIN
    ELSE IF HighCpuOrMemory(feature_names, X) THEN SCALE_UP
    ELSE IF HighRequestRate(feature_names, X) THEN THROTTLE_API
    ELSE IF HighErrorRate(feature_names, X) THEN RESTART_POD
    ELSE IF anomaly_score >= Pct(80) THEN ALERT_ADMIN
    ELSE NO_ACTION

\* without the early return for missing feature names
_recommend_action_no_names_falls_through(anomaly_score, X, feature_names) ==
    IF anomaly_score < Pct(50) THEN NO_ACTION
    ELSE IF HighCpuOrMemory(feature_names, X) THEN SCALE_UP
    ELSE IF HighErrorRate(feature_names, X) THEN RESTART_POD
    ELSE IF HighRequestRate(feature_names, X) THEN THROTTLE_API
    ELSE IF anomaly_score >= Pct(80) THEN ALERT_ADMIN
    ELSE NO_ACTION

\* AnomalyDetector._recommend_action; X is the row X[0], feature_names = <<>>
\* is None or the empty list
_recommend_action(anomaly_score, X, feature_names) ==
    IF anomaly_score < Pct(50) THEN NO_ACTION
    ELSE IF feature_names = <<>> \/ Len(X) = 0 THEN ALERT_ADMIN
    ELSE IF HighCpuOrMemory(feature_names, X) THEN SCALE_UP
    ELSE IF HighErrorRate(feature_names, X) THEN RESTART_POD
    ELSE IF HighRequestRate(feature_names, X) THEN THROTTLE_API
    ELSE IF anomaly_score >= Pct(80) THEN ALERT_ADMIN
    ELSE NO_ACTION

\* the order with equal keys in reverse input order
SortedDescending_ties_reversed(key) ==
    LET n == Len(key)
        rank == List([i \in 1..n |-> 1 + Cardinality({j \in 1..n :
                    key[j] > key[i] \/ (key[j] = key[i] /\ j > i)})])
    IN  List([p \in 1..n |-> CHOOSE i \in 1..n : rank[i] = p])

\* sorted(range(len(key)), key=..., reverse=True): the indices by descending
\* key; sorted() is stable, also with reverse=True, so equal keys keep their order
SortedDescending(key) ==
    LET n == Len(key)
        rank == List([i \in 1..n |-> 1 + Cardinality({j \in 1..n :
                    key[j] > key[i] \/ (key[j] = key[i] /\ j < i)})])
    IN  List([p \in 1..n |-> CHOOSE i \in 1..n : rank[i] = p])

\* AnomalyDetector._get_affected_features
_get_affected_features(X, feature_names) ==
    IF feature_names = <<>> \/ Len(X) = 0 THEN <<>>
    ELSE LET keys == DictKeys(feature_names, X)
             n == Len(keys)
             by_abs == SortedDescending(
                           List([i \in 1..n |-> Abs(DictGet(feature_names, X, keys[i]))]))
             sorted_features == List([p \in 1..n |-> keys[by_abs[p]]])
         IN  SubSeq(sorted_features, 1, Min2(5, n))

\* AnomalyDetector.__init__
AnomalyDetector_init(contamination) ==
    [contamination |-> contamination,
     isolation_forest |-> Unfitted,
     elliptic_envelope |-> Unfitted,
     is_trained |-> FALSE]

\* training accepted from 9 rows on
AnomalyDetector_train_min_9(self, shape, iso_fit, env_fit) ==
    IF shape[1] < 9 THEN self
    ELSE IF iso_fit = "raise" THEN self
    ELSE LET s1 == [self EXCEPT !.isolation_forest = shape]
         IN  IF shape[1] >= shape[2] + 1
             THEN IF env_fit = "raise" THEN s1
                  ELSE [s1 EXCEPT !.elliptic_envelope = shape, !.is_trained = TRUE]
             ELSE [s1 EXCEPT !.is_trained = TRUE]

\* AnomalyDetector.train on X of shape <<n_samples, n_features>>; iso_fit and
\* env_fit say whether the library's fit returns ("ok") or raises ("raise")
AnomalyDetector_train(self, shape, iso_fit, env_fit) ==
    IF shape[1] < 10 THEN self
    ELSE IF iso_fit = "raise" THEN self
    ELSE LET s1 == [self EXCEPT !.isolation_forest = shape]
         IN  IF shape[1] >= shape[2] + 1
             THEN IF env_fit = "raise" THEN s1
                  ELSE [s1 EXCEPT !.elliptic_envelope = shape, !.is_trained = TRUE]
             ELSE [s1 EXCEPT !.is_trained = TRUE]

\* prediction without the is_trained check
AnomalyDetector_predict_unchecked(self, X, feature_names, model) ==
    IF model.raises
    THEN [is_anomaly |-> FALSE, anomaly_score |-> 0, severity |-> LOW,
          action |-> NO_ACTION, details |-> [error |-> "str(e)"]]
    ELSE LET anomaly_score == _normalize_score(-model.iso_score)
         IN  [is_anomaly |-> (model.iso_prediction = -1),
              anomaly_score |-> anomaly_score,
              severity |-> _determine_severity(anomaly_score),
              action |-> _recommend_action(anomaly_score, X, feature_names),
              details |-> [anomaly_score |-> anomaly_score,
                           affected_features |-> _get_affected_features(X, feature_names),
                           model_confidence |-> Num(1) - (Abs(model.iso_score) \div 10),
                           threshold_used |-> self.contamination]]

\* AnomalyDetector.predict; model is what the fitted isolation forest does for
\* X: [raises, iso_prediction, iso_score]
AnomalyDetector_predict(self, X, feature_names, model) ==
    IF ~self.is_trained
    THEN [is_anomaly |-> FALSE, anomaly_score |-> 0, severity |-> LOW,
          action |-> NO_ACTION, details |-> EmptyDict]
    ELSE IF model.raises
    THEN [is_anomaly |-> FALSE, anomaly_score |-> 0, severity |-> LOW,
          action |-> NO_ACTION, details |-> [error |-> "str(e)"]]
    ELSE LET iso_prediction == model.iso_prediction
             iso_score == model.iso_score
             is_anomaly_iso == (iso_prediction = -1)
             anomaly_score == _normalize_score(-iso_score)
             severity == _determine_severity(anomaly_score)
             action == _recommend_action(anomaly_score, X, feature_names)
             affected_features == _get_affected_features(X, feature_names)
         IN  [is_anomaly |-> is_anomaly_iso,
              anomaly_score |-> anomaly_score,
              severity |-> severity,
              action |-> action,
              details |-> [anomaly_score |-> anomaly_score,
                           affected_features |-> affected_features,
                           model_confidence |-> Num(1) - (Abs(iso_score) \div 10),
                           threshold_used |-> self.contamination]]

----------------------------------------------------------------------------
(* services/failure_detector.py *)

\* feature_dict.get(k, default)
DictGetOr(feature_names, X, k, default) ==
    IF \E i \in 1..ZipLen(feature_names, X) : feature_names[i] = k
    THEN DictGet(feature_names, X, k)
    ELSE default

\* a not-detected tuple that still names services
NotDetected_names_services(confidence, details) ==
    [failure_detected |-> FALSE, failure_type |-> None, severity |-> LOW,
     actions |-> <<NO_ACTION>>, confidence |-> confidence, root_cause |-> NoRootCause,
     affected_services |-> <<"api-service">>, details |-> details]

\* the not-detected tuple returned on four paths of the class
NotDetected(confidence, details) ==
    [failure_detected |-> FALSE, failure_type |-> None, severity |-> LOW,
     actions |-> <<NO_ACTION>>, confidence |-> confidence, root_cause |-> NoRootCause,
     affected_services |-> <<>>, details |-> details]

\* the connection check tried before the error-rate check
_heuristic_detection_connection_first(X, feature_names) ==
    IF Len(X) = 0 \/ feature_names = <<>> THEN NotDetected(0, EmptyDict)
    ELSE LET error_rate == DictGetOr(feature_names, X, "error_rate", 0)
             error_count == DictGetOr(feature_names, X, "error_count", 0)
         IN  IF DictGetOr(feature_names, X, "keyword_connection", 0) > Num(10)
             THEN [failure_detected |-> TRUE,
                   failure_type |-> "connection_timeout",
                   severity |-> MEDIUM,
                   actions |-> <<RESTART_POD>>,
                   confidence |-> Pct(70),
                   root_cause |-> <<Msg("Multiple connection timeout errors detected", 0)>>,
                   affected_services |-> <<"database", "api-service">>,
                   details |-> [heuristic |-> TRUE]]
             ELSE IF error_rate > Pct(20) \/ error_count > Num(50)
             THEN [failure_detected |-> TRUE,
                   failure_type |-> "high_error_rate",
                   severity |-> HIGH,
                   actions |-> <<RESTART_POD, ALERT_ADMIN>>,
                   confidence |-> Pct(80),
                   root_cause |-> <<Msg("High error rate detected: {:.2%}", error_rate)>>,
                   affected_services |-> <<"api-service">>,
                   details |-> [heuristic |-> TRUE, error_rate |-> error_rate]]
             ELSE NotDetected(0, EmptyDict)

\* FailureDetector._heuristic_detection
_heuristic_detection(X, feature_names) ==
    IF Len(X) = 0 \/ feature_names = <<>> THEN NotDetected(0, EmptyDict)
    ELSE LET error_rate == DictGetOr(feature_names, X, "error_rate", 0)
             error_count == DictGetOr(feature_names, X, "error_count", 0)
         IN  IF error_rate > Pct(20) \/ error_count > Num(50)
             THEN [failure_detected |-> TRUE,
                   failure_type |-> "high_error_rate",
                   severity |-> HIGH,
                   actions |-> <<RESTART_POD, ALERT_ADMIN>>,
                   confidence |-> Pct(80),
                   root_cause |-> <<Msg("High error rate detected: {:.2%}", error_rate)>>,
                   affected_services |-> <<"api-service">>,
                   details |-> [heuristic |-> TRUE, error_rate |-> error_rate]]
             ELSE IF DictGetOr(feature_names, X, "keyword_connection", 0) > Num(10)
             THEN [failure_detected |-> TRUE,
                   failure_type |-> "connection_timeout",
                   severity |-> MEDIUM,
                   actions |-> <<RESTART_POD>>,
                   confidence |-> Pct(70),
                   root_cause |-> <<Msg("Multiple connection timeout errors detected", 0)>>,
                   affected_services |-> <<"database", "api-service">>,
                   details |-> [heuristic |-> TRUE]]
             ELSE NotDetected(0, EmptyDict)

\* the timeout rule tried before the error-rate rule
_identify_failure_type_timeout_first(X, feature_names) ==
    IF feature_names = <<>> \/ Len(X) = 0 THEN "unknown"
    ELSE IF DictGetOr(feature_names, X, "keyword_timeout", 0) > Num(5)
         THEN "connection_timeout"
    ELSE IF DictGetOr(feature_names, X, "error_rate", 0) > Pct(30) THEN "service_down"
    ELSE IF DictGetOr(feature_names, X, "keyword_exception", 0) > Num(10)
         THEN "unhandled_exception"
    ELSE "unknown"

\* FailureDetector._identify_failure_type
_identify_failure_type(X, feature_names) ==
    IF feature_names = <<>> \/ Len(X) = 0 THEN "unknown"
    ELSE IF DictGetOr(feature_names, X, "error_rate", 0) > Pct(30) THEN "service_down"
    ELSE IF DictGetOr(feature_names, X, "keyword_timeout", 0) > Num(5)
         THEN "connection_timeout"
    ELSE IF DictGetOr(feature_names, X, "keyword_exception", 0) > Num(10)
         THEN "unhandled_exception"
    ELSE "unknown"

\* FailureDetector._determine_failure_severity
_determine_failure_severity(confidence, X, feature_names) ==
    IF confidence >= Pct(90) THEN CRITICAL
    ELSE IF confidence >= Pct(70) THEN HIGH
    ELSE IF confidence >= Pct(50) THEN MEDIUM
    ELSE LOW

\* actions_map.get(failure_type, [ALERT_ADMIN]); the dict is built on every call
actions_map(failure_type) ==
    CASE failure_type = "service_down" -> <<RESTART_POD, ALERT_ADMIN>>
      [] failure_type = "high_latency" -> <<SCALE_UP, THROTTLE_API>>
      [] failure_type = "memory_leak" -> <<RESTART_POD, ALERT_ADMIN>>
      [] failure_type = "connection_timeout" -> <<RESTART_POD, SCALE_UP>>
      [] failure_type = "unknown" -> <<ALERT_ADMIN>>
      [] OTHER -> <<ALERT_ADMIN>>

\* the alert appended without looking for it in the list
_recommend_remediation_actions_always_appends(failure_type, severity) ==
    IF severity \in {HIGH, CRITICAL}
    THEN Append(actions_map(failure_type), ALERT_ADMIN)
    ELSE actions_map(failure_type)

\* FailureDetector._recommend_remediation_actions
_recommend_remediation_actions(failure_type, severity) ==
    LET actions == actions_map(failure_type)
    IN  IF /\ severity \in {HIGH, CRITICAL}
           /\ \A i \in 1..Len(actions) : actions[i] # ALERT_ADMIN
        THEN Append(actions, ALERT_ADMIN)
        ELSE actions

\* FailureDetector._analyze_root_cause: the causes that " and ".join() joins
_analyze_root_cause(X, feature_names) ==
    IF feature_names = <<>> \/ Len(X) = 0 THEN <<Msg("Unable to determine root cause", 0)>>
    ELSE LET c1 == IF DictGetOr(feature_names, X, "error_rate", 0) > Pct(20)
                   THEN <<Msg("High error rate ({:.2%})",
                               DictGet(feature_names, X, "error_rate"))>>
                   ELSE <<>>
             c2 == IF DictGetOr(feature_names, X, "keyword_timeout", 0) > Num(5)
                   THEN <<Msg("Multiple timeout errors", 0)>> ELSE <<>>
             c3 == IF DictGetOr(feature_names, X, "keyword_connection", 0) > Num(5)
                   THEN <<Msg("Connection failures", 0)>> ELSE <<>>
             causes == c1 \o c2 \o c3
         IN  IF causes # <<>> THEN causes ELSE <<Msg("Anomalous behavior detected", 0)>>

\* FailureDetector._identify_affected_services
_identify_affected_services(X, feature_names) == <<"api-service", "worker-service">>

\* FailureDetector._get_feature_importance: the keys of
\* dict(zip(feature_names, importances)); there is one importance per fitted column
_get_feature_importance(self, feature_names) ==
    IF ~self.is_trained \/ feature_names = <<>> THEN <<>>
    ELSE DictKeysUpTo(feature_names, Min2(Len(feature_names), self.classifier[2]))

\* FailureDetector.__init__
FailureDetector_init ==
    [classifier |-> Unfitted,
     is_trained |-> FALSE]

\* FailureDetector.train on X of shape <<n_samples, n_features>>
FailureDetector_train(self, shape, fit) ==
    IF shape[1] < 10 THEN self
    ELSE IF fit = "raise" THEN self
    ELSE [self EXCEPT !.classifier = shape, !.is_trained = TRUE]

Max(seq) == CHOOSE m \in {seq[i] : i \in 1..Len(seq)} : \A i \in 1..Len(seq) : seq[i] <= m

\* FailureDetector.predict; model is what the fitted classifier does for X:
\* [raises, proba, prediction]
FailureDetector_predict(self, X, feature_names, model) ==
    IF ~self.is_trained THEN _heuristic_detection(X, feature_names)
    ELSE IF model.raises THEN NotDetected(0, [error |-> "str(e)"])
    ELSE LET proba == model.proba
             confidence == Max(proba)
             failure_detected == (model.prediction = 1)
             details == [confidence |-> confidence,
                         prediction_probability |->
                             IF Len(proba) > 1 THEN proba[2] ELSE confidence,
                         feature_importance |->
                             _get_feature_importance(self, feature_names)]
         IN  IF failure_detected
             THEN LET failure_type == _identify_failure_type(X, feature_names)
                      severity == _determine_failure_severity(confidence, X, feature_names)
                  IN  [failure_detected |-> TRUE,
                       failure_type |-> failure_type,
                       severity |-> severity,
                       actions |-> _recommend_remediation_actions(failure_type, severity),
                       confidence |-> confidence,
                       root_cause |-> _analyze_root_cause(X, feature_names),
                       affected_services |-> _identify_affected_services(X, feature_names),
                       details |-> details]
             ELSE NotDetected(confidence, details)

----------------------------------------------------------------------------
(* services/preprocessing.py *)

\* the characters of the feature names, in code-point order
Alphabet == "_abcdefghijklmnopqrstuvwxyz"

\* ord(c)
Ord(c) == CHOOSE i \in 1..Len(Alphabet) : SubSeq(Alphabet, i, i) = c

\* the first position where a and b differ, 0 when one is a prefix of the other
RECURSIVE FirstDiff(_, _, _)
FirstDiff(a, b, i) ==
    IF i > Len(a) \/ i > Len(b) THEN 0
    ELSE IF SubSeq(a, i, i) # SubSeq(b, i, i) THEN i
    ELSE FirstDiff(a, b, i + 1)

\* a < b for Python strings
StrLess(a, b) ==
    LET i == FirstDiff(a, b, 1)
    IN  IF i = 0 THEN Len(a) < Len(b)
        ELSE Ord(SubSeq(a, i, i)) < Ord(SubSeq(b, i, i))

\* the sorted list with k put in its place
RECURSIVE Insert(_, _)
Insert(sorted, k) ==
    IF sorted = <<>> THEN <<k>>
    ELSE IF StrLess(k, Head(sorted)) THEN <<k>> \o sorted
    ELSE <<Head(sorted)>> \o Insert(Tail(sorted), k)

\* sorted(keys) for a set of distinct strings
RECURSIVE SortedNames(_)
SortedNames(keys) ==
    IF keys = {} THEN <<>>
    ELSE LET k == CHOOSE k \in keys : TRUE
         IN  Insert(SortedNames(keys \ {k}), k)

RECURSIVE Sum(_)
Sum(values) == IF values = <<>> THEN 0 ELSE Head(values) + Sum(Tail(values))

\* the largest r with r * r <= n
RECURSIVE ISqrt(_)
ISqrt(n) ==
    IF n < 2 THEN n
    ELSE LET small == 2 * ISqrt(n \div 4)
             large == small + 1
         IN  IF large * large > n THEN small ELSE large

\* Floats outside the fixed-point range.  float('inf'), float('nan') and the
\* 1e10 that nan_to_num puts in place of an infinity are not a small number of
\* thousandths; each is written as a code near the top of the integers, and
\* the operators below never do integer arithmetic on a code.  -float_inf is
\* float('-inf').
float_inf == 2000000001

float_nan == 2000000002

\* posinf=1e10 and neginf=-1e10 of the np.nan_to_num calls
posinf == 2000000000

neginf == -posinf

IsNaN(x) == x = float_nan

IsInf(x) == x = float_inf \/ x = -float_inf

IsFinite(x) == ~IsNaN(x) /\ ~IsInf(x)

AllFinite(values) == \A i \in 1..Len(values) : IsFinite(values[i])

AnyNaN(values) == \E i \in 1..Len(values) : IsNaN(values[i])

\* a + b of two floats: inf + (-inf) is nan
fadd(a, b) ==
    IF IsNaN(a) \/ IsNaN(b) THEN float_nan
    ELSE IF IsInf(a) THEN (IF IsInf(b) /\ b # a THEN float_nan ELSE a)
    ELSE IF IsInf(b) THEN b
    ELSE a + b

\* a - b of two floats
fsub(a, b) == fadd(a, IF IsNaN(b) THEN b ELSE -b)

\* a / n for a count n > 0; a quotient is rounded down to a thousandth
fdiv(a, n) == IF IsFinite(a) THEN a \div n ELSE a

RECURSIVE np_sum(_)
np_sum(values) ==
    IF values = <<>> THEN 0 ELSE fadd(Head(values), np_sum(Tail(values)))

\* np.mean(values)
np_mean(values) == fdiv(np_sum(values), Len(values))

\* np.std(values), the population deviation, taken on tenths.  With an infinite
\* value the mean is infinite or nan and inf - inf is nan, so the result is
\* nan whenever a value is not finite.
np_std(values) ==
    IF ~AllFinite(values) THEN float_nan
    ELSE
    LET n == Len(values)
        mean == np_mean(values)
        dev == List([i \in 1..n |-> Abs(values[i] - mean) \div (Scale \div 10)])
        sq == List([i \in 1..n |-> dev[i] * dev[i]])
    IN  ISqrt(Sum(sq) \div n) * (Scale \div 10)

\* np.min(values); a nan among the values is the result
np_min(values) ==
    IF AnyNaN(values) THEN float_nan
    ELSE CHOOSE m \in {values[i] : i \in 1..Len(values)} :
             \A i \in 1..Len(values) : m <= values[i]

\* np.max(values)
np_max(values) ==
    IF AnyNaN(values) THEN float_nan
    ELSE CHOOSE m \in {values[i] : i \in 1..Len(values)} :
             \A i \in 1..Len(values) : m >= values[i]

\* values in ascending order
Ascending(values) ==
    LET n == Len(values)
        rank == List([i \in 1..n |-> 1 + Cardinality({j \in 1..n :
                       values[j] < values[i] \/ (values[j] = values[i] /\ j < i)})])
    IN  List([p \in 1..n |-> values[CHOOSE i \in 1..n : rank[i] = p]])

\* np.median(values): nan with a nan among the values, else the middle value or
\* the mean of the two middle values
np_median(values) ==
    IF AnyNaN(values) THEN float_nan
    ELSE
    LET n == Len(values)
        asc == Ascending(values)
    IN  IF n % 2 = 1 THEN asc[(n + 1) \div 2]
        ELSE fdiv(fadd(asc[n \div 2], asc[n \div 2 + 1]), 2)

\* np.polyfit(np.arange(n), values, 1)[0] for finite values: the least-squares
\* slope
polyfit_slope(values) ==
    LET n == Len(values)
        sx == Sum(List([i \in 1..n |-> i - 1]))
        sxx == Sum(List([i \in 1..n |-> (i - 1) * (i - 1)]))
        sxy == Sum(List([i \in 1..n |-> (i - 1) * values[i]]))
    IN  (n * sxy - sx * Sum(values)) \div (n * sxx - sx * sx)

\* What np.polyfit does with a value that is not finite is the LAPACK build's
\* choice: it returns nan coefficients, or lstsq reports that the SVD did not
\* converge and LinAlgError is raised.
LstsqOutcomes == {"nan", "raise"}

\* the outcome recorded when every value given to np.polyfit is finite
LstsqNotAsked == "nan"

\* the statistics of one metric type, on its values in timestamp order; the
\* trend of values that are not all finite is nan here, the raising build is
\* dealt with by PolyfitRaises
MetricStats(values) ==
    [mean |-> np_mean(values),
     std |-> np_std(values),
     min |-> np_min(values),
     max |-> np_max(values),
     median |-> np_median(values),
     rate_of_change |-> IF Len(values) > 1
                        THEN fdiv(fsub(values[Len(values)], values[1]), Len(values))
                        ELSE 0,
     trend |-> IF Len(values) > 2
               THEN IF AllFinite(values) THEN polyfit_slope(values) ELSE float_nan
               ELSE 0]

StatNames == {"mean", "std", "min", "max", "median", "rate_of_change", "trend"}

\* np.nan_to_num(x, nan=0.0, posinf=1e10, neginf=-1e10) left out
nan_to_num_identity(x) == x

\* np.nan_to_num(x, nan=0.0, posinf=1e10, neginf=-1e10) on one entry
nan_to_num(x) ==
    IF IsNaN(x) THEN 0
    ELSE IF x = float_inf THEN posinf
    ELSE IF x = -float_inf THEN neginf
    ELSE x

\* The row of the DataFrame built from a sample is
\* {'timestamp': .., 'metric_type': .., 'value': .., **m.labels}: a label whose
\* key is one of the three column names replaces that entry of the row.
Shadowed(m, column) == column \in DOMAIN m.labels

\* row['metric_type']
RowMetricType(m) ==
    IF Shadowed(m, "metric_type") THEN m.labels["metric_type"] ELSE m.metric_type

\* df.sort_values('timestamp') orders the rows by timestamp; which of two rows
\* with one timestamp comes first is the sort's choice (quicksort, not stable).
\* An order is a permutation of the row indices that sort_values can produce.
SortOrders(metrics) ==
    {order \in [1..Len(metrics) -> 1..Len(metrics)] :
        /\ \A i, j \in 1..Len(metrics) : i # j => order[i] # order[j]
        /\ \A i \in 1..(Len(metrics) - 1) :
              metrics[order[i]].timestamp <= metrics[order[i + 1]].timestamp}

\* sort_values on a timestamp column that holds datetimes and label strings
\* compares a str with a datetime: TypeError
SortRaises(metrics) ==
    \E i, j \in 1..Len(metrics) :
        Shadowed(metrics[i], "timestamp") /\ ~Shadowed(metrics[j], "timestamp")

\* the orders sort_values can produce on the rows: by the label strings when
\* every row's timestamp is a label, by the timestamps otherwise
RowOrders(metrics) ==
    IF metrics # <<>> /\ \A i \in 1..Len(metrics) : Shadowed(metrics[i], "timestamp")
    THEN {order \in [1..Len(metrics) -> 1..Len(metrics)] :
            /\ \A i, j \in 1..Len(metrics) : i # j => order[i] # order[j]
            /\ \A i \in 1..(Len(metrics) - 1) :
                  ~StrLess(metrics[order[i + 1]].labels["timestamp"],
                           metrics[order[i]].labels["timestamp"])}
    ELSE SortOrders(metrics)

\* np.mean on a value column that holds a label string: TypeError
ValueRaises(metrics) == \E i \in 1..Len(metrics) : Shadowed(metrics[i], "value")

\* metric_df['value'].values of one metric type, in the order of the sorted rows
RECURSIVE SelectValues(_, _, _)
SelectValues(metrics, order, metric_type) ==
    IF order = <<>> THEN <<>>
    ELSE LET m == metrics[Head(order)]
             rest == SelectValues(metrics, Tail(order), metric_type)
         IN  IF RowMetricType(m) = metric_type THEN <<m.value>> \o rest ELSE rest

\* np.polyfit is given a value that is not finite and the build raises
PolyfitRaises(metrics, order, lstsq) ==
    /\ lstsq = "raise"
    /\ \E t \in {RowMetricType(metrics[i]) : i \in 1..Len(metrics)} :
          LET values == SelectValues(metrics, order, t)
          IN  Len(values) > 2 /\ ~AllFinite(values)

\* DataPreprocessor.preprocess_metrics, given the row order sort_values chose
\* and what np.polyfit does with a value that is not finite.  Returns
\* [raised, features: the row, names: the names]; raised is an exception
\* leaving the method.
preprocess_metrics(metrics, order, lstsq) ==
    IF metrics = <<>> THEN [raised |-> FALSE, features |-> <<>>, names |-> <<>>]
    ELSE IF \/ SortRaises(metrics)
            \/ ValueRaises(metrics)
            \/ PolyfitRaises(metrics, order, lstsq)
         THEN [raised |-> TRUE, features |-> <<>>, names |-> <<>>]
    ELSE LET types == {RowMetricType(metrics[i]) : i \in 1..Len(metrics)}
             features == UNION {
                 LET stats == MetricStats(SelectValues(metrics, order, t))
                 IN  {[name |-> t \o "_" \o st, value |-> stats[st]] : st \in StatNames} :
                 t \in types}
             feature_names == SortedNames({f.name : f \in features})
         IN  [raised |-> FALSE,
              features |-> List([i \in 1..Len(feature_names) |->
                               nan_to_num((CHOOSE f \in features :
                                              f.name = feature_names[i]).value)]),
              names |-> feature_names]

\* error_keywords of preprocess_logs
error_keywords == <<"timeout", "connection", "failed", "exception", "error", "crashed">>

\* the keys of the features dict of preprocess_logs; they are the same on every
\* call that gets this far
LogFeatureKeys ==
    {"error_count", "warn_count", "info_count", "total_logs", "error_rate",
     "unique_services", "max_service_errors"}
    \cup {"keyword_" \o error_keywords[i] : i \in 1..Len(error_keywords)}

\* sorted(features.keys())
LogFeatureNames == SortedNames(LogFeatureKeys)

\* level_counts.get(level, 0): the entries whose lowered level is `level`
LevelCount(recent_logs, level) ==
    Cardinality({i \in 1..Len(recent_logs) : lower(recent_logs[i].level) = level})

\* service_counts[service]
ServiceCount(recent_logs, service) ==
    Cardinality({i \in 1..Len(recent_logs) : recent_logs[i].service = service})

\* the keyword counted in the entries of every level
KeywordCount_any_level(recent_logs, keyword) ==
    Cardinality({i \in 1..Len(recent_logs) :
                    Contains(lower(recent_logs[i].message), keyword)})

\* keyword_counts[keyword]: one for each error entry whose lowered message has
\* the keyword in it
KeywordCount(recent_logs, keyword) ==
    Cardinality({i \in 1..Len(recent_logs) :
                    /\ lower(recent_logs[i].level) = "error"
                    /\ Contains(lower(recent_logs[i].message), keyword)})

\* features[name] of preprocess_logs
LogFeature(recent_logs, name) ==
    LET error_count == LevelCount(recent_logs, "error")
        total_logs == Len(recent_logs)
        services == {recent_logs[i].service : i \in 1..Len(recent_logs)}
    IN  CASE name = "error_count" -> Num(error_count)
          [] name = "warn_count" -> Num(LevelCount(recent_logs, "warn"))
          [] name = "info_count" -> Num(LevelCount(recent_logs, "info"))
          [] name = "total_logs" -> Num(total_logs)
          [] name = "error_rate" ->
                IF total_logs > 0 THEN Num(error_count) \div total_logs ELSE 0
          [] name = "unique_services" -> Num(Cardinality(services))
          [] name = "max_service_errors" ->
                IF services = {} THEN 0
                ELSE Num(CHOOSE m \in {ServiceCount(recent_logs, sv) : sv \in services} :
                            \A sv \in services : ServiceCount(recent_logs, sv) <= m)
          [] OTHER ->
                LET i == CHOOSE i \in 1..Len(error_keywords) :
                             name = "keyword_" \o error_keywords[i]
                IN  Num(KeywordCount(recent_logs, error_keywords[i]))

\* [log for log in logs if log.timestamp >= cutoff]
RECURSIVE RecentLogs(_, _)
RecentLogs(logs, cutoff) ==
    IF logs = <<>> THEN <<>>
    ELSE IF Head(logs).timestamp >= cutoff
         THEN <<Head(logs)>> \o RecentLogs(Tail(logs), cutoff)
         ELSE RecentLogs(Tail(logs), cutoff)

\* str(e) of the TypeError that comparing a timezone-aware timestamp with the
\* naive datetime.utcnow() raises
NaiveAwareError == "can't compare offset-naive and offset-aware datetimes"

\* the filter with the boundary instant left out
preprocess_logs_strict(logs, window_size, now) ==
    IF logs = <<>> THEN [raised |-> FALSE, features |-> <<>>, names |-> <<>>]
    ELSE IF \E i \in 1..Len(logs) : logs[i].aware
         THEN [raised |-> TRUE, features |-> <<>>, names |-> <<>>]
    ELSE LET recent_logs == RecentLogs(logs, now - window_size + 1)
             feature_names == LogFeatureNames
         IN  IF recent_logs = <<>>
             THEN [raised |-> FALSE, features |-> <<>>, names |-> <<>>]
             ELSE [raised |-> FALSE,
                   features |-> List([i \in 1..Len(feature_names) |->
                                        nan_to_num(LogFeature(recent_logs,
                                                              feature_names[i]))]),
                   names |-> feature_names]

\* DataPreprocessor.preprocess_logs; now is what datetime.utcnow() returns
\* during the call.  Returns [raised, features: the row, names]; raised is the
\* TypeError of the timestamp comparison.
preprocess_logs(logs, window_size, now) ==
    IF logs = <<>> THEN [raised |-> FALSE, features |-> <<>>, names |-> <<>>]
    ELSE IF \E i \in 1..Len(logs) : logs[i].aware
         THEN [raised |-> TRUE, features |-> <<>>, names |-> <<>>]
    ELSE LET cutoff == now - window_size
             recent_logs == RecentLogs(logs, cutoff)
             feature_names == LogFeatureNames
         IN  IF recent_logs = <<>>
             THEN [raised |-> FALSE, features |-> <<>>, names |-> <<>>]
             ELSE [raised |-> FALSE,
                   features |-> List([i \in 1..Len(feature_names) |->
                                        nan_to_num(LogFeature(recent_logs,
                                                              feature_names[i]))]),
                   names |-> feature_names]

\* the log features put in front
combine_features_logs_first(metric_features, log_features) ==
    log_features \o metric_features

\* DataPreprocessor.combine_features on the rows of the two arrays; <<>> is an
\* array of size 0
combine_features(metric_features, log_features) ==
    IF Len(metric_features) = 0 /\ Len(log_features) = 0 THEN <<>>
    ELSE IF Len(metric_features) = 0 THEN log_features
    ELSE IF Len(log_features) = 0 THEN metric_features
    ELSE metric_features \o log_features

----------------------------------------------------------------------------
(* config.py, services/model_service.py *)

\* Settings.anomaly_threshold = 0.85
anomaly_threshold == 850

\* Settings.failure_detection_window, in seconds
failure_detection_window == 300

\* ModelService.__init__
ModelService_init ==
    /\ anomaly_detector = AnomalyDetector_init(Num(1) - anomaly_threshold)
    /\ failure_detector = FailureDetector_init
    /\ models_loaded = FALSE

\* str(e) of an exception raised inside preprocess_metrics
MetricsError == "str(e) of preprocess_metrics"

\* the response of the except branch and of the empty-input branch of
\* detect_anomaly
AnomalyErrorResponse(error) ==
    [is_anomaly |-> FALSE, anomaly_score |-> 0, severity |-> LOW,
     recommended_action |-> NO_ACTION, confidence |-> 0,
     affected_metrics |-> {},
     details |-> [error |-> error]]

\* the metric extraction failing without details.error being set
detect_anomaly_error_unset(self, metrics, order, model) ==
    LET pre == preprocess_metrics(metrics, order, LstsqNotAsked)
    IN  IF pre.raised \/ Len(pre.features) = 0
        THEN [AnomalyErrorResponse("") EXCEPT !.details = EmptyDict]
        ELSE LET r == AnomalyDetector_predict(self, pre.features, pre.names, model)
             IN  [is_anomaly |-> r.is_anomaly,
                  anomaly_score |-> r.anomaly_score,
                  severity |-> r.severity,
                  recommended_action |-> r.action,
                  confidence |-> IF "model_confidence" \in DOMAIN r.details
                                 THEN r.details.model_confidence ELSE 0,
                  affected_metrics |->
                      {metrics[i].metric_type : i \in 1..Len(metrics)},
                  details |-> r.details]

\* ModelService.detect_anomaly, given the row order sort_values chose and what
\* the fitted isolation forest does; the metric values of a request are finite
\* here, so np.polyfit is not asked about any other
detect_anomaly(self, metrics, order, model) ==
    LET pre == preprocess_metrics(metrics, order, LstsqNotAsked)
    IN  IF pre.raised THEN AnomalyErrorResponse(MetricsError)
        ELSE IF Len(pre.features) = 0
        THEN AnomalyErrorResponse("No features extracted")
        ELSE LET r == AnomalyDetector_predict(self, pre.features, pre.names, model)
             IN  [is_anomaly |-> r.is_anomaly,
                  anomaly_score |-> r.anomaly_score,
                  severity |-> r.severity,
                  recommended_action |-> r.action,
                  confidence |-> IF "model_confidence" \in DOMAIN r.details
                                 THEN r.details.model_confidence ELSE 0,
                  affected_metrics |->
                      {metrics[i].metric_type : i \in 1..Len(metrics)},
                  details |-> r.details]

\* the response of the except branch and of the empty-input branch of
\* detect_failure
FailureErrorResponse(error) ==
    [failure_detected |-> FALSE, failure_type |-> None, severity |-> LOW,
     recommended_actions |-> <<NO_ACTION>>, confidence |-> 0,
     root_cause |-> NoRootCause, affected_services |-> <<>>,
     details |-> [error |-> error]]

\* FailureDetectionResponse(...) of what failure_detector.predict returned
FailureResponse(r) ==
    [failure_detected |-> r.failure_detected, failure_type |-> r.failure_type,
     severity |-> r.severity, recommended_actions |-> r.actions,
     confidence |-> r.confidence, root_cause |-> r.root_cause,
     affected_services |-> r.affected_services, details |-> r.details]

\* the detector asked even when nothing was extracted
detect_failure_always_predicts(self, metrics, order, logs, now, model) ==
    LET metric == preprocess_metrics(metrics, order, LstsqNotAsked)
        log == preprocess_logs(logs, failure_detection_window, now)
    IN  IF metric.raised THEN FailureErrorResponse(MetricsError)
        ELSE IF log.raised THEN FailureErrorResponse(NaiveAwareError)
        ELSE FailureResponse(FailureDetector_predict(self,
                 combine_features(metric.features, log.features),
                 metric.names \o log.names, model))

\* the name list put together in the other order than the row
detect_failure_names_logs_first(self, metrics, order, logs, now, model) ==
    LET metric == preprocess_metrics(metrics, order, LstsqNotAsked)
        log == preprocess_logs(logs, failure_detection_window, now)
    IN  IF metric.raised THEN FailureErrorResponse(MetricsError)
        ELSE IF log.raised THEN FailureErrorResponse(NaiveAwareError)
        ELSE LET features == combine_features(metric.features, log.features)
                 feature_names == log.names \o metric.names
             IN  IF Len(features) = 0
                 THEN FailureErrorResponse("No features extracted")
                 ELSE FailureResponse(FailureDetector_predict(self, features,
                                                              feature_names, model))

\* ModelService.detect_failure, given the row order sort_values chose, what the
\* clock reads and what the fitted classifier does
detect_failure(self, metrics, order, logs, now, model) ==
    LET metric == preprocess_metrics(metrics, order, LstsqNotAsked)
        log == preprocess_logs(logs, failure_detection_window, now)
    IN  IF metric.raised THEN FailureErrorResponse(MetricsError)
        ELSE IF log.raised THEN FailureErrorResponse(NaiveAwareError)
        ELSE LET features == combine_features(metric.features, log.features)
                 feature_names == metric.names \o log.names
             IN  IF Len(features) = 0
                 THEN FailureErrorResponse("No features extracted")
                 ELSE FailureResponse(FailureDetector_predict(self, features,
                                                              feature_names, model))

----------------------------------------------------------------------------
(* The inputs of the calls *)

\* the longest feature row and name list given to a detector's predict
MaxFeatures == 2

\* the most metric samples in one request
MaxMetrics == 2

\* feature values given to the private methods
FeatureValues == {Num(0), Num(10), Num(50), Num(90), Num(2000)}

\* feature values given to predict
PredictValues == {Num(0), Num(50), Num(90)}

Rows(values, n) == UNION {[1..k -> values] : k \in 0..n}

\* feature-name lists; <<>> is None or []
AnomalyNames ==
    {<<>>,
     <<"cpu_usage_mean">>,
     <<"disk_io_mean">>,
     <<"CPU_Load", "Memory_Used">>,
     <<"cpu_usage_mean", "memory_usage_mean">>,
     <<"cpu_usage_mean", "cpu_usage_max">>,
     <<"cpu_usage_mean", "cpu_usage_mean">>,
     <<"cpu_usage_mean", "error_rate_mean">>,
     <<"error_rate_mean", "request_rate_mean">>,
     <<"disk_io_mean", "response_time_mean">>,
     <<"cpu_usage_mean", "memory_usage_mean", "request_rate_mean", "error_rate_mean">>}

\* anomaly scores given to the private methods, as the tests do
Scores == {Pct(0), Pct(30), Pct(49), Pct(50), Pct(55), Pct(69), Pct(70), Pct(75),
           Pct(79), Pct(80), Pct(89), Pct(90), Pct(95), Pct(100)}

\* score_samples() of an isolation forest lies in [-1, 0)
RawScores == {-Pct(60), -Pct(40), -Pct(26), -Pct(25), -Pct(10)}

\* what the fitted isolation forest can do for a row
IsoOutcomes ==
    {[raises |-> TRUE, iso_prediction |-> 1, iso_score |-> 0]}
    \cup [raises : {FALSE}, iso_prediction : {-1, 1}, iso_score : RawScores]

\* the outcome recorded when the model is not asked
NotAsked == [raises |-> FALSE, iso_prediction |-> 1, iso_score |-> 0]

\* what the fitted isolation forest does for the row built from a metric list
ServiceOutcomes ==
    {[raises |-> TRUE, iso_prediction |-> 1, iso_score |-> 0],
     [raises |-> FALSE, iso_prediction |-> -1, iso_score |-> -Pct(60)],
     [raises |-> FALSE, iso_prediction |-> -1, iso_score |-> -Pct(26)],
     [raises |-> FALSE, iso_prediction |-> 1, iso_score |-> -Pct(10)]}

\* shapes <<n_samples, n_features>> of training data
TrainShapes == {<<5, 3>>, <<9, 10>>, <<10, 10>>, <<100, 10>>}

\* feature-name lists given to the failure detector
FailureNames ==
    {<<>>,
     <<"error_rate">>,
     <<"error_count">>,
     <<"keyword_connection">>,
     <<"error_rate", "keyword_connection">>,
     <<"error_rate", "keyword_timeout">>,
     <<"keyword_timeout", "keyword_exception">>}

\* 0, an error rate of 0.25 and of 0.35, the counts 6 and 51
FailureValues == {Num(0), Pct(25), Pct(35), Num(6), Num(51)}

\* predict_proba() of the fitted classifier for a row: one probability per class
Probas == {<<Pct(100)>>, <<Pct(40), Pct(60)>>, <<Pct(25), Pct(75)>>,
           <<Pct(95), Pct(5)>>, <<Pct(40), Pct(30), Pct(30)>>}

\* what the fitted classifier can do for a row
ClfOutcomes ==
    {[raises |-> TRUE, proba |-> <<Pct(100)>>, prediction |-> 0]}
    \cup [raises : {FALSE}, proba : Probas, prediction : {0, 1}]

ClfNotAsked == [raises |-> FALSE, proba |-> <<Pct(100)>>, prediction |-> 0]

\* shapes of the labelled training data
FailureTrainShapes == {<<5, 3>>, <<20, 3>>}

MetricTypes == {"cpu_usage", "error_rate"}

MetricValues == {Num(50), Num(90)}

Timestamps == {1, 2}

\* a sample with a label named like the value column
ShadowedSample ==
    [metric_type |-> "cpu_usage", value |-> Num(90), timestamp |-> 1,
     labels |-> [value |-> "ninety"]]

\* MetricData: samples without labels (every type, value and timestamp occurs,
\* two samples share type and timestamp) and the one with the shadowing label
MetricData ==
    {m \in [metric_type : MetricTypes, value : MetricValues, timestamp : Timestamps,
            labels : {EmptyDict}] :
        \/ m.metric_type = "cpu_usage" /\ m.timestamp = 1
        \/ m.metric_type = "cpu_usage" /\ m.value = Num(90)
        \/ m.metric_type = "error_rate" /\ m.value = Num(50) /\ m.timestamp = 2}
    \cup {ShadowedSample}

MetricLists == UNION {[1..k -> MetricData] : k \in 0..MaxMetrics}

\* the longest log list given to preprocess_logs on its own
MaxLogs == 4

\* the longest log list of a detect_failure request
MaxRequestLogs == 2

\* log entries: timestamps in seconds, aware says that the timestamp carries a
\* timezone.  Two recent errors (one naming a keyword twice), an old error with
\* an upper-case level, a recent warning naming keywords, an old info entry and
\* an error with a timezone-aware timestamp.
LogEntries ==
    {[timestamp |-> 300, aware |-> FALSE, level |-> "error",
      message |-> "Connection timeout", service |-> "api"],
     [timestamp |-> 300, aware |-> FALSE, level |-> "error",
      message |-> "timeout after timeout", service |-> "api"],
     [timestamp |-> 100, aware |-> FALSE, level |-> "ERROR",
      message |-> "Connection failed", service |-> "worker"],
     [timestamp |-> 300, aware |-> FALSE, level |-> "warn",
      message |-> "Connection timeout", service |-> "worker"],
     [timestamp |-> 100, aware |-> FALSE, level |-> "info",
      message |-> "Request completed", service |-> "api"],
     [timestamp |-> 300, aware |-> TRUE, level |-> "error",
      message |-> "Exception in handler", service |-> "api"]}

LogLists(n) == UNION {[1..k -> LogEntries] : k \in 0..n}

\* the log entries of a detect_failure request: a recent error, an old info
\* entry and an error with a timezone-aware timestamp
RequestLogEntries ==
    {e \in LogEntries : \/ e.message = "Connection timeout" /\ e.level = "error"
                        \/ e.level = "info"
                        \/ e.aware}

RequestLogLists == UNION {[1..k -> RequestLogEntries] : k \in 0..MaxRequestLogs}

\* the metric lists of a detect_failure request
RequestMetricLists ==
    {<<>>,
     <<[metric_type |-> "cpu_usage", value |-> Num(90), timestamp |-> 1,
        labels |-> EmptyDict]>>,
     <<[metric_type |-> "error_rate", value |-> Num(50), timestamp |-> 1,
        labels |-> EmptyDict]>>,
     <<ShadowedSample>>}

\* the longest feature row given to _get_affected_features on its own
MaxRow == 6

\* the feature names of one metric type, as preprocess_metrics returns them
RowNames ==
    <<"cpu_usage_max", "cpu_usage_mean", "cpu_usage_median", "cpu_usage_min",
      "cpu_usage_rate_of_change", "cpu_usage_std", "cpu_usage_trend">>

\* feature values given to _get_affected_features: two of one absolute value
RowValues == {-Num(90), Num(50), Num(90)}

\* the longest sample list given to preprocess_metrics on its own
MaxSamples == 3

\* samples given to preprocess_metrics on its own: two finite values with one
\* timestamp, the three values that are not finite, and one sample with each
\* shadowing label
SampleEntries ==
    {[metric_type |-> "cpu_usage", value |-> Num(50), timestamp |-> 1,
      labels |-> EmptyDict],
     [metric_type |-> "cpu_usage", value |-> Num(90), timestamp |-> 1,
      labels |-> EmptyDict],
     [metric_type |-> "cpu_usage", value |-> float_inf, timestamp |-> 2,
      labels |-> EmptyDict],
     [metric_type |-> "cpu_usage", value |-> -float_inf, timestamp |-> 2,
      labels |-> EmptyDict],
     [metric_type |-> "cpu_usage", value |-> float_nan, timestamp |-> 2,
      labels |-> EmptyDict],
     [metric_type |-> "cpu_usage", value |-> Num(50), timestamp |-> 1,
      labels |-> [metric_type |-> "error_rate"]],
     [metric_type |-> "cpu_usage", value |-> Num(50), timestamp |-> 1,
      labels |-> [value |-> "ninety"]],
     [metric_type |-> "cpu_usage", value |-> Num(50), timestamp |-> 1,
      labels |-> [timestamp |-> "later"]]}

SampleLists == UNION {[1..k -> SampleEntries] : k \in 0..MaxSamples}

\* what the fitted classifier does for the row built from a request
RequestClfOutcomes ==
    {[raises |-> TRUE, proba |-> <<Pct(100)>>, prediction |-> 0],
     [raises |-> FALSE, proba |-> <<Pct(25), Pct(75)>>, prediction |-> 1],
     [raises |-> FALSE, proba |-> <<Pct(95), Pct(5)>>, prediction |-> 0]}

\* failure types given to _recommend_remediation_actions
FailureTypes ==
    {"service_down", "high_latency", "memory_leak", "connection_timeout",
     "unknown", "unhandled_exception"}

\* what datetime.utcnow() can return during a call, in seconds
Clock == {400, 600, 601}

\* window_size of preprocess_logs: the default and a shorter one
WindowSizes == {60, 300}

----------------------------------------------------------------------------
(* The calls *)

\* no call is under way
Idle == [op |-> "idle"]

Init ==
    /\ ModelService_init
    /\ result = Idle

\* the caller has taken the returned value; the calls are synchronous, so the
\* next one starts after this
Return ==
    /\ result # Idle
    /\ result' = Idle
    /\ UNCHANGED <<anomaly_detector, failure_detector, models_loaded>>

\* anomaly_detector.train(X)
TrainAnomaly ==
    /\ result = Idle
    /\ \E shape \in TrainShapes, iso_fit \in {"ok", "raise"}, env_fit \in {"ok", "raise"} :
        /\ anomaly_detector' = AnomalyDetector_train(anomaly_detector, shape, iso_fit, env_fit)
        /\ result' = [op |-> "AnomalyDetector.train", shape |-> shape,
                      iso_fit |-> iso_fit, env_fit |-> env_fit]
        /\ UNCHANGED <<failure_detector, models_loaded>>

\* anomaly_detector.predict(X, feature_names)
PredictAnomaly ==
    /\ result = Idle
    /\ \E feature_names \in AnomalyNames, X \in Rows(PredictValues, MaxFeatures),
          model \in IsoOutcomes \cup {NotAsked} :
        /\ Len(feature_names) <= MaxFeatures
        /\ anomaly_detector.is_trained \/ model = NotAsked
        /\ result' = [op |-> "AnomalyDetector.predict",
                      trained |-> anomaly_detector.is_trained,
                      X |-> X, feature_names |-> feature_names, model |-> model,
                      ret |-> AnomalyDetector_predict(anomaly_detector, X,
                                                      feature_names, model)]
        /\ UNCHANGED <<anomaly_detector, failure_detector, models_loaded>>

\* failure_detector.train(X, y)
TrainFailure ==
    /\ result = Idle
    /\ \E shape \in FailureTrainShapes, fit \in {"ok", "raise"} :
        /\ failure_detector' = FailureDetector_train(failure_detector, shape, fit)
        /\ result' = [op |-> "FailureDetector.train", shape |-> shape, fit |-> fit]
        /\ UNCHANGED <<anomaly_detector, models_loaded>>

\* failure_detector.predict(X, feature_names)
PredictFailure ==
    /\ result = Idle
    /\ \E feature_names \in FailureNames, X \in Rows(FailureValues, MaxFeatures),
          model \in ClfOutcomes :
        /\ Len(feature_names) <= MaxFeatures
        /\ failure_detector.is_trained \/ model = ClfNotAsked
        /\ result' = [op |-> "FailureDetector.predict",
                      trained |-> failure_detector.is_trained,
                      X |-> X, feature_names |-> feature_names, model |-> model,
                      ret |-> FailureDetector_predict(failure_detector, X,
                                                      feature_names, model)]
        /\ UNCHANGED <<anomaly_detector, failure_detector, models_loaded>>

\* the flag set without training
load_models_flag_only ==
    /\ result = Idle
    /\ models_loaded' = TRUE
    /\ result' = [op |-> "ModelService.load_models", ready_before |-> models_loaded]
    /\ UNCHANGED <<anomaly_detector, failure_detector>>

\* the failure detector trained too
load_models_trains_both ==
    /\ result = Idle
    /\ anomaly_detector' = AnomalyDetector_train(anomaly_detector, <<100, 10>>, "ok", "ok")
    /\ failure_detector' = FailureDetector_train(failure_detector, <<100, 10>>, "ok")
    /\ models_loaded' = TRUE
    /\ result' = [op |-> "ModelService.load_models", ready_before |-> models_loaded]

\* ModelService.load_models: fitting the synthetic 100 x 10 sample succeeds;
\* ready_before is models_loaded as the call found it
load_models ==
    /\ result = Idle
    /\ anomaly_detector' = AnomalyDetector_train(anomaly_detector, <<100, 10>>, "ok", "ok")
    /\ models_loaded' = TRUE
    /\ result' = [op |-> "ModelService.load_models", ready_before |-> models_loaded]
    /\ UNCHANGED failure_detector

\* ModelService.detect_anomaly(metrics); extraction records whether
\* preprocess_metrics raised
DetectAnomaly ==
    /\ result = Idle
    /\ \E metrics \in MetricLists, model \in ServiceOutcomes \cup {NotAsked} :
        \E order \in RowOrders(metrics) :
            LET raised == preprocess_metrics(metrics, order, LstsqNotAsked).raised
            IN  /\ (anomaly_detector.is_trained /\ metrics # <<>> /\ ~raised)
                        \/ model = NotAsked
                /\ result' = [op |-> "ModelService.detect_anomaly",
                              trained |-> anomaly_detector.is_trained,
                              metrics |-> metrics,
                              extraction |-> IF raised THEN "raise" ELSE "ok",
                              order |-> order, model |-> model,
                              ret |-> detect_anomaly(anomaly_detector, metrics,
                                                     order, model)]
                /\ UNCHANGED <<anomaly_detector, failure_detector, models_loaded>>

\* a request that fails softly takes the service out of READY
DetectFailure_resets_ready ==
    /\ result = Idle
    /\ \E metrics \in RequestMetricLists, logs \in RequestLogLists,
          now \in Clock, model \in RequestClfOutcomes \cup {ClfNotAsked} :
        \E order \in RowOrders(metrics) :
            LET raised == preprocess_metrics(metrics, order, LstsqNotAsked).raised
                log == preprocess_logs(logs, failure_detection_window, now)
                asked ==
                    /\ ~raised
                    /\ failure_detector.is_trained
                    /\ ~log.raised
                    /\ (metrics # <<>> \/ log.names # <<>>)
                ret == detect_failure(failure_detector, metrics, order, logs, now, model)
            IN  /\ asked \/ model = ClfNotAsked
                /\ result' = [op |-> "ModelService.detect_failure",
                              trained |-> failure_detector.is_trained,
                              metrics |-> metrics,
                              extraction |-> IF raised THEN "raise" ELSE "ok",
                              order |-> order, logs |-> logs, now |-> now,
                              model |-> model, ret |-> ret]
                /\ models_loaded' = (models_loaded /\ "error" \notin DOMAIN ret.details)
                /\ UNCHANGED <<anomaly_detector, failure_detector>>

\* ModelService.detect_failure(metrics, logs)
DetectFailure ==
    /\ result = Idle
    /\ \E metrics \in RequestMetricLists, logs \in RequestLogLists,
          now \in Clock, model \in RequestClfOutcomes \cup {ClfNotAsked} :
        \E order \in RowOrders(metrics) :
            LET raised == preprocess_metrics(metrics, order, LstsqNotAsked).raised
                log == preprocess_logs(logs, failure_detection_window, now)
                asked ==
                    /\ ~raised
                    /\ failure_detector.is_trained
                    /\ ~log.raised
                    /\ (metrics # <<>> \/ log.names # <<>>)
            IN  /\ asked \/ model = ClfNotAsked
                /\ result' = [op |-> "ModelService.detect_failure",
                              trained |-> failure_detector.is_trained,
                              metrics |-> metrics,
                              extraction |-> IF raised THEN "raise" ELSE "ok",
                              order |-> order, logs |-> logs, now |-> now,
                              model |-> model,
                              ret |-> detect_failure(failure_detector, metrics,
                                                     order, logs, now, model)]
                /\ UNCHANGED <<anomaly_detector, failure_detector, models_loaded>>

\* detector._recommend_remediation_actions(failure_type, severity)
Call_recommend_remediation_actions ==
    /\ result = Idle
    /\ \E failure_type \in FailureTypes, severity \in SeverityLevel :
        /\ result' = [op |-> "_recommend_remediation_actions",
                      failure_type |-> failure_type, severity |-> severity,
                      ret |-> _recommend_remediation_actions(failure_type, severity)]
        /\ UNCHANGED <<anomaly_detector, failure_detector, models_loaded>>

\* detector._normalize_score(score), as test_score_normalization calls it
Call_normalize_score ==
    /\ result = Idle
    /\ \E score \in RawScores \cup {0, Pct(20), Pct(50)} :
        /\ result' = [op |-> "_normalize_score", score |-> score,
                      ret |-> _normalize_score(score)]
        /\ UNCHANGED <<anomaly_detector, failure_detector, models_loaded>>

\* detector._determine_severity(score), as test_severity_determination calls it
Call_determine_severity ==
    /\ result = Idle
    /\ \E anomaly_score \in Scores :
        /\ result' = [op |-> "_determine_severity", anomaly_score |-> anomaly_score,
                      ret |-> _determine_severity(anomaly_score)]
        /\ UNCHANGED <<anomaly_detector, failure_detector, models_loaded>>

\* detector._recommend_action(score, X, feature_names), as
\* test_action_recommendation calls it
Call_recommend_action ==
    /\ result = Idle
    /\ \E anomaly_score \in Scores, feature_names \in AnomalyNames :
        \E X \in Rows(FeatureValues, Max2(MaxFeatures, Len(feature_names))) :
            /\ Len(X) \in {0, 1, Len(feature_names)}
            /\ result' = [op |-> "_recommend_action", anomaly_score |-> anomaly_score,
                          X |-> X, feature_names |-> feature_names,
                          ret |-> _recommend_action(anomaly_score, X, feature_names)]
            /\ UNCHANGED <<anomaly_detector, failure_detector, models_loaded>>

\* preprocessor.preprocess_logs(logs, window_size), as test_preprocess_logs
\* calls it; the clock is read during the call
Call_preprocess_logs ==
    /\ result = Idle
    /\ \E logs \in LogLists(MaxLogs), window_size \in WindowSizes, now \in Clock :
        /\ result' = [op |-> "preprocess_logs", logs |-> logs,
                      window_size |-> window_size, now |-> now,
                      ret |-> preprocess_logs(logs, window_size, now)]
        /\ UNCHANGED <<anomaly_detector, failure_detector, models_loaded>>

\* detector._get_affected_features(X, feature_names), with the names of the
\* row or with no names
Call_get_affected_features ==
    /\ result = Idle
    /\ \E X \in Rows(RowValues, Min2(MaxRow, Len(RowNames))) :
        \E feature_names \in {<<>>, SubSeq(RowNames, 1, Len(X))} :
            /\ result' = [op |-> "_get_affected_features", X |-> X,
                          feature_names |-> feature_names,
                          ret |-> _get_affected_features(X, feature_names)]
            /\ UNCHANGED <<anomaly_detector, failure_detector, models_loaded>>

\* preprocessor.preprocess_metrics(metrics)
Call_preprocess_metrics ==
    /\ result = Idle
    /\ \E metrics \in SampleLists, lstsq \in LstsqOutcomes :
        \E order \in RowOrders(metrics) :
            /\ lstsq = LstsqNotAsked \/ PolyfitRaises(metrics, order, lstsq)
            /\ result' = [op |-> "preprocess_metrics", metrics |-> metrics,
                          order |-> order, lstsq |-> lstsq,
                          ret |-> preprocess_metrics(metrics, order, lstsq)]
            /\ UNCHANGED <<anomaly_detector, failure_detector, models_loaded>>

\* preprocessor.combine_features(metric_features, log_features), as
\* test_combine_features calls it
Call_combine_features ==
    /\ result = Idle
    /\ \E metric_features \in Rows(FeatureValues, MaxFeatures),
          log_features \in Rows(FeatureValues, MaxFeatures) :
        /\ result' = [op |-> "combine_features", metric_features |-> metric_features,
                      log_features |-> log_features,
                      ret |-> combine_features(metric_features, log_features)]
        /\ UNCHANGED <<anomaly_detector, failure_detector, models_loaded>>

Next ==
    \/ TrainAnomaly
    \/ PredictAnomaly
    \/ TrainFailure
    \/ PredictFailure
    \/ load_models
    \/ DetectAnomaly
    \/ DetectFailure
    \/ Call_recommend_remediation_actions
    \/ Call_normalize_score
    \/ Call_determine_severity
    \/ Return

Spec == Init /\ [][Next]_vars

\* the methods of AnomalyDetector and DataPreprocessor called on their own
\* the calls made on a ModelService through its own methods
ServiceNext ==
    \/ load_models
    \/ DetectAnomaly
    \/ DetectFailure
    \/ Return

ServiceSpec == Init /\ [][ServiceNext]_vars

FnNext ==
    \/ Call_normalize_score
    \/ Call_determine_severity
    \/ Call_recommend_action
    \/ Call_get_affected_features
    \/ Call_preprocess_metrics
    \/ Call_preprocess_logs
    \/ Call_combine_features
    \/ Return

FnSpec == Init /\ [][FnNext]_vars

\* ---------------------------------------------------------------------------
\* Properties of the anomaly detector's results

\* C1: for a trained AnomalyDetector, predict returns
\* anomaly_score = clamp(2 * (-raw), 0, 1), raw being the raw density score the
\* fitted model gives the row
C1_ScoreIsClampedNegatedRaw ==
    (result.op = "AnomalyDetector.predict" /\ result.trained /\ ~result.model.raises)
        => result.ret.anomaly_score
               = Min2(Num(1), Max2(0, 2 * (-result.model.iso_score)))

\* C2: for a trained AnomalyDetector, a row the fitted model labels an outlier
\* (-1) with a raw density score below -0.25 gets is_anomaly = true,
\* anomaly_score > 0.5 and a severity of MEDIUM, HIGH or CRITICAL
C2_StrongOutlierIsSevere ==
    (/\ result.op = "AnomalyDetector.predict"
     /\ result.trained
     /\ ~result.model.raises
     /\ result.model.iso_prediction = -1
     /\ result.model.iso_score < -Pct(25))
        => /\ result.ret.is_anomaly
           /\ result.ret.anomaly_score > Pct(50)
           /\ result.ret.severity \in {MEDIUM, HIGH, CRITICAL}

\* C3: severity is a total function of the score with four non-overlapping
\* bands (>= 0.9 CRITICAL, [0.7, 0.9) HIGH, [0.5, 0.7) MEDIUM, < 0.5 LOW); every
\* result of AnomalyDetector.predict carries the severity of the band of its
\* anomaly_score, and a trained FailureDetector that detects a failure carries
\* the severity of the band of its confidence
C3_SeverityIsBandOfScore ==
    LET InBand(severity, score) ==
            \/ severity = CRITICAL /\ score >= Pct(90)
            \/ severity = HIGH /\ Pct(70) <= score /\ score < Pct(90)
            \/ severity = MEDIUM /\ Pct(50) <= score /\ score < Pct(70)
            \/ severity = LOW /\ score < Pct(50)
        Banded(severity, score) ==
            {s \in SeverityLevel : InBand(s, score)} = {severity}
    IN  /\ result.op = "_determine_severity"
            => Banded(result.ret, result.anomaly_score)
        /\ result.op = "AnomalyDetector.predict"
            => Banded(result.ret.severity, result.ret.anomaly_score)
        /\ (/\ result.op = "FailureDetector.predict"
            /\ result.trained
            /\ result.ret.failure_detected)
            => Banded(result.ret.severity, result.ret.confidence)

C3_Witness ==
    /\ result.op = "FailureDetector.predict"
    /\ result.trained
    /\ result.ret.failure_detected
    /\ result.ret.confidence = Pct(75)
    /\ result.ret.severity = HIGH

\* C4: while the AnomalyDetector is untrained, predict returns the same default
\* for every row and every feature-name list: is_anomaly = false,
\* anomaly_score = 0.0, severity LOW, action NO_ACTION, and details without
\* affected features and without an error entry
C4_UntrainedDefault ==
    (result.op = "AnomalyDetector.predict" /\ ~result.trained)
        => /\ result.ret.is_anomaly = FALSE
           /\ result.ret.anomaly_score = 0
           /\ result.ret.severity = LOW
           /\ result.ret.action = NO_ACTION
           /\ DOMAIN result.ret.details = {}

C4_Witness ==
    /\ result.op = "AnomalyDetector.predict"
    /\ ~result.trained
    /\ result.feature_names = <<"cpu_usage_mean", "memory_usage_mean">>
    /\ result.X = <<Num(90), Num(90)>>
    /\ result.ret.action = NO_ACTION

\* C5: from untrained, train() with fewer than 10 rows returns and leaves the
\* detector untrained (AnomalyDetector and FailureDetector), so the next
\* predict() returns the untrained default (for the FailureDetector the
\* heuristic result); train() with 10 or more rows whose fit succeeds makes the
\* detector trained
C5_TrainNeedsTenRows ==
    [][/\ (result'.op = "AnomalyDetector.train" /\ ~anomaly_detector.is_trained
                /\ result'.shape[1] < 10)
           => ~anomaly_detector'.is_trained
       /\ (result'.op = "AnomalyDetector.train" /\ result'.shape[1] >= 10
                /\ result'.iso_fit = "ok"
                /\ (result'.shape[1] >= result'.shape[2] + 1 => result'.env_fit = "ok"))
           => anomaly_detector'.is_trained
       /\ (result'.op = "FailureDetector.train" /\ ~failure_detector.is_trained
                /\ result'.shape[1] < 10)
           => ~failure_detector'.is_trained
       /\ (result'.op = "FailureDetector.train" /\ result'.shape[1] >= 10
                /\ result'.fit = "ok")
           => failure_detector'.is_trained
       /\ (result'.op = "AnomalyDetector.predict" /\ ~anomaly_detector.is_trained)
           => /\ ~result'.ret.is_anomaly
              /\ result'.ret.anomaly_score = 0
              /\ result'.ret.severity = LOW
              /\ result'.ret.action = NO_ACTION
       /\ (result'.op = "FailureDetector.predict" /\ ~failure_detector.is_trained)
           => /\ "feature_importance" \notin DOMAIN result'.ret.details
              /\ result'.ret.failure_detected
                    => "heuristic" \in DOMAIN result'.ret.details
      ]_vars

C5_Witness ==
    /\ result.op = "AnomalyDetector.train"
    /\ result.shape = <<9, 10>>
    /\ result.iso_fit = "ok"
    /\ ~anomaly_detector.is_trained

\* C6: in every result of AnomalyDetector.predict and of
\* ModelService.detect_anomaly, anomaly_score < 0.5 implies the action
\* NO_ACTION whatever the features are; an action other than NO_ACTION comes
\* only with severity MEDIUM or higher
C6_LowScoreNoAction ==
    /\ result.op = "AnomalyDetector.predict"
        => /\ result.ret.anomaly_score < Pct(50) => result.ret.action = NO_ACTION
           /\ result.ret.action # NO_ACTION
                => result.ret.severity \in {MEDIUM, HIGH, CRITICAL}
    /\ result.op = "ModelService.detect_anomaly"
        => /\ result.ret.anomaly_score < Pct(50)
                => result.ret.recommended_action = NO_ACTION
           /\ result.ret.recommended_action # NO_ACTION
                => result.ret.severity \in {MEDIUM, HIGH, CRITICAL}

C6_Witness ==
    /\ result.op = "AnomalyDetector.predict"
    /\ result.trained
    /\ ~result.model.raises
    /\ result.feature_names = <<"cpu_usage_mean", "memory_usage_mean">>
    /\ result.X = <<Num(90), Num(90)>>
    /\ result.ret.anomaly_score < Pct(50)
    /\ result.ret.action = NO_ACTION

\* ---------------------------------------------------------------------------
\* Properties of AnomalyDetector._recommend_action

\* C7 as stated: for anomaly_score >= 0.5, SCALE_UP is chosen exactly when some
\* feature name contains "cpu" or "memory" and the mean over all those
\* features together is greater than 80
C7_CombinedMeanDecides ==
    (result.op = "_recommend_action" /\ result.anomaly_score >= Pct(50))
        => LET both == KeysWith(result.feature_names, result.X, "cpu")
                       \cup KeysWith(result.feature_names, result.X, "memory")
           IN  (result.ret = SCALE_UP)
                   <=> /\ result.feature_names # <<>>
                       /\ both # {}
                       /\ AvgGreater(result.feature_names, result.X, both, Num(80))

\* C7: for anomaly_score >= 0.5, SCALE_UP is chosen exactly when the mean of
\* the features whose name contains "cpu" is greater than 80 or the mean of
\* the features whose name contains "memory" is greater than 80, each group
\* averaged on its own and only over the names that have a value in the row;
\* otherwise selection continues with the later rules
C7_SeparateMeansDecide ==
    (result.op = "_recommend_action" /\ result.anomaly_score >= Pct(50))
        => LET cpu == KeysWith(result.feature_names, result.X, "cpu")
               memory == KeysWith(result.feature_names, result.X, "memory")
           IN  (result.ret = SCALE_UP)
                   <=> \/ cpu # {} /\ AvgGreater(result.feature_names, result.X, cpu, Num(80))
                       \/ memory # {}
                            /\ AvgGreater(result.feature_names, result.X, memory, Num(80))

C7_Witness ==
    /\ result.op = "_recommend_action"
    /\ result.anomaly_score = Pct(55)
    /\ result.feature_names = <<"CPU_Load", "Memory_Used">>
    /\ result.X = <<Num(90), Num(50)>>
    /\ result.ret = SCALE_UP

\* C8: for anomaly_score >= 0.5, when the mean of the features whose name
\* contains "cpu" is greater than 80, _recommend_action returns SCALE_UP even if
\* the memory features are at or below 80 and no other rule matches
C8_HighCpuScalesUp ==
    (result.op = "_recommend_action" /\ result.anomaly_score >= Pct(50))
        => LET cpu == KeysWith(result.feature_names, result.X, "cpu")
           IN  (cpu # {} /\ AvgGreater(result.feature_names, result.X, cpu, Num(80)))
                   => result.ret = SCALE_UP

C8_Witness ==
    /\ result.op = "_recommend_action"
    /\ result.anomaly_score = Pct(80)
    /\ result.feature_names = <<"cpu_usage_mean", "memory_usage_mean",
                                "request_rate_mean", "error_rate_mean">>
    /\ result.X = <<Num(90), Num(50), Num(10), Num(0)>>
    /\ result.ret = SCALE_UP

\* C9: for anomaly_score >= 0.5 the rules are tried in the order cpu/memory
\* (> 80) SCALE_UP, error (> 10) RESTART_POD, request (> 1000) THROTTLE_API, and
\* the first rule whose condition holds decides
C9_FirstRuleWins ==
    (result.op = "_recommend_action" /\ result.anomaly_score >= Pct(50))
        => LET High(kw, t) ==
                   LET keys == KeysWith(result.feature_names, result.X, kw)
                   IN  keys # {} /\ AvgGreater(result.feature_names, result.X, keys, t)
               rule1 == High("cpu", Num(80)) \/ High("memory", Num(80))
               rule2 == High("error", Num(10))
               rule3 == High("request", Num(1000))
           IN  /\ rule1 => result.ret = SCALE_UP
               /\ (~rule1 /\ rule2) => result.ret = RESTART_POD
               /\ (~rule1 /\ ~rule2 /\ rule3) => result.ret = THROTTLE_API

C9_Witness ==
    /\ result.op = "_recommend_action"
    /\ result.anomaly_score = Pct(55)
    /\ result.feature_names = <<"error_rate_mean", "request_rate_mean">>
    /\ result.X = <<Num(50), Num(2000)>>
    /\ result.ret = RESTART_POD

\* C10 as stated: when none of the cpu/memory, error and request rules matches,
\* the action is ALERT_ADMIN only if anomaly_score >= 0.8 and NO_ACTION if
\* 0.5 <= anomaly_score < 0.8, for every feature-name list, a missing or empty
\* one included
C10_FallbackForEveryNameList ==
    result.op = "_recommend_action"
        => LET High(kw, t) ==
                   LET keys == KeysWith(result.feature_names, result.X, kw)
                   IN  keys # {} /\ AvgGreater(result.feature_names, result.X, keys, t)
               no_rule == /\ ~High("cpu", Num(80))
                          /\ ~High("memory", Num(80))
                          /\ ~High("error", Num(10))
                          /\ ~High("request", Num(1000))
           IN  no_rule
                   => /\ result.ret = ALERT_ADMIN => result.anomaly_score >= Pct(80)
                      /\ (Pct(50) <= result.anomaly_score /\ result.anomaly_score < Pct(80))
                            => result.ret = NO_ACTION

\* C10: when none of the cpu/memory, error and request rules matches and both
\* the feature-name list and the row are non-empty, the action is ALERT_ADMIN
\* for anomaly_score >= 0.8 and NO_ACTION for 0.5 <= anomaly_score < 0.8; with a
\* missing or empty feature-name list, or an empty row, the action is
\* ALERT_ADMIN for every anomaly_score >= 0.5
C10_FallbackNeedsNames ==
    result.op = "_recommend_action"
        => LET High(kw, t) ==
                   LET keys == KeysWith(result.feature_names, result.X, kw)
                   IN  keys # {} /\ AvgGreater(result.feature_names, result.X, keys, t)
               no_rule == /\ ~High("cpu", Num(80))
                          /\ ~High("memory", Num(80))
                          /\ ~High("error", Num(10))
                          /\ ~High("request", Num(1000))
               unnamed == result.feature_names = <<>> \/ result.X = <<>>
           IN  /\ (no_rule /\ ~unnamed /\ result.anomaly_score >= Pct(80))
                    => result.ret = ALERT_ADMIN
               /\ (no_rule /\ ~unnamed /\ Pct(50) <= result.anomaly_score
                        /\ result.anomaly_score < Pct(80))
                    => result.ret = NO_ACTION
               /\ (unnamed /\ result.anomaly_score >= Pct(50))
                    => result.ret = ALERT_ADMIN

C10_Witness ==
    /\ result.op = "_recommend_action"
    /\ result.anomaly_score = Pct(55)
    /\ result.feature_names = <<>>
    /\ result.ret = ALERT_ADMIN

\* ---------------------------------------------------------------------------
\* Properties of DataPreprocessor

\* C17: combine_features(A, B) is empty when both are empty, is the non-empty
\* one unchanged when exactly one is empty, and otherwise is one row of length
\* |A| + |B| with A's entries in their order followed by B's in theirs
C17_CombineKeepsOrder ==
    result.op = "combine_features"
        => LET A == result.metric_features
               B == result.log_features
               R == result.ret
           IN  /\ (A = <<>> /\ B = <<>>) => R = <<>>
               /\ (A = <<>> /\ B # <<>>) => R = B
               /\ (A # <<>> /\ B = <<>>) => R = A
               /\ (A # <<>> /\ B # <<>>)
                    => /\ Len(R) = Len(A) + Len(B)
                       /\ \A i \in 1..Len(A) : R[i] = A[i]
                       /\ \A j \in 1..Len(B) : R[Len(A) + j] = B[j]

C17_Witness ==
    /\ result.op = "combine_features"
    /\ result.metric_features = <<Num(90), Num(10)>>
    /\ result.log_features = <<Num(50), Num(0)>>
    /\ result.ret = <<Num(90), Num(10), Num(50), Num(0)>>

\* C18: preprocess_logs keeps exactly the entries with timestamp >= now - window
\* (boundary included); with none kept it returns the empty vector and no
\* names; otherwise error_count, warn_count and info_count count the kept
\* entries of that level, total_logs counts the kept entries and
\* error_rate = error_count / total_logs
C18_LogCounts ==
    (result.op = "preprocess_logs" /\ ~result.ret.raised)
        => LET logs == result.logs
               kept == {i \in 1..Len(logs) :
                           logs[i].timestamp >= result.now - result.window_size}
               Of(level) == {i \in kept : lower(logs[i].level) = level}
               Value(name) ==
                   result.ret.features[CHOOSE i \in 1..Len(result.ret.names) :
                                           result.ret.names[i] = name]
           IN  /\ kept = {} => (result.ret.features = <<>> /\ result.ret.names = <<>>)
               /\ kept # {}
                    => /\ result.ret.names # <<>>
                       /\ Value("error_count") = Num(Cardinality(Of("error")))
                       /\ Value("warn_count") = Num(Cardinality(Of("warn")))
                       /\ Value("info_count") = Num(Cardinality(Of("info")))
                       /\ Value("total_logs") = Num(Cardinality(kept))
                       /\ Value("error_rate")
                            = Num(Cardinality(Of("error"))) \div Cardinality(kept)

C18_Witness ==
    /\ result.op = "preprocess_logs"
    /\ Len(result.logs) = 4
    /\ result.now - result.window_size = 100
    /\ \E i \in 1..4 : result.logs[i].timestamp = 100
    /\ ~result.ret.raised
    /\ result.ret.names # <<>>
    /\ \E e, w, r, t \in 1..Len(result.ret.names) :
        /\ result.ret.names[e] = "error_count" /\ result.ret.features[e] = Num(2)
        /\ result.ret.names[w] = "warn_count" /\ result.ret.features[w] = Num(1)
        /\ result.ret.names[r] = "error_rate" /\ result.ret.features[r] = Pct(50)
        /\ result.ret.names[t] = "total_logs" /\ result.ret.features[t] = Num(4)

\* C19 as stated: keyword_{kw} is the number of occurrences of the keyword in
\* the lowered messages of the kept error entries, so that a message with the
\* keyword twice counts twice
C19_KeywordOccurrences ==
    (result.op = "preprocess_logs" /\ ~result.ret.raised /\ result.ret.names # <<>>)
        => LET logs == result.logs
               kept == {i \in 1..Len(logs) :
                           /\ logs[i].timestamp >= result.now - result.window_size
                           /\ lower(logs[i].level) = "error"}
               Occurrences(keyword) ==
                   UNION {LET message == lower(logs[i].message)
                          IN  {<<i, p>> : p \in {q \in 1..(Len(message) - Len(keyword) + 1) :
                                  SubSeq(message, q, q + Len(keyword) - 1) = keyword}} :
                          i \in kept}
           IN  \A k \in 1..Len(error_keywords) :
                   \E i \in 1..Len(result.ret.names) :
                       /\ result.ret.names[i] = "keyword_" \o error_keywords[k]
                       /\ result.ret.features[i]
                            = Num(Cardinality(Occurrences(error_keywords[k])))

\* C19: keyword_{kw} is the number of kept entries of level error
\* (case-insensitive) whose message contains the keyword (case-insensitive);
\* entries of another level add nothing and a message with the keyword twice
\* adds one
C19_KeywordEntries ==
    (result.op = "preprocess_logs" /\ ~result.ret.raised /\ result.ret.names # <<>>)
        => LET logs == result.logs
               kept == {i \in 1..Len(logs) :
                           /\ logs[i].timestamp >= result.now - result.window_size
                           /\ lower(logs[i].level) = "error"}
               With(keyword) ==
                   {i \in kept : \E q \in 1..(Len(logs[i].message) - Len(keyword) + 1) :
                       SubSeq(lower(logs[i].message), q, q + Len(keyword) - 1) = keyword}
           IN  \A k \in 1..Len(error_keywords) :
                   \E i \in 1..Len(result.ret.names) :
                       /\ result.ret.names[i] = "keyword_" \o error_keywords[k]
                       /\ result.ret.features[i]
                            = Num(Cardinality(With(error_keywords[k])))

C19_Witness ==
    /\ result.op = "preprocess_logs"
    /\ ~result.ret.raised
    /\ result.now - result.window_size <= 300
    /\ Len(result.logs) = 2
    /\ result.logs[1].message = "timeout after timeout"
    /\ result.logs[2].level = "warn"
    /\ \E i \in 1..Len(result.ret.names) :
        /\ result.ret.names[i] = "keyword_timeout"
        /\ result.ret.features[i] = Num(1)

\* C20: log feature extraction is a function of its arguments: the result of a
\* call is the same whatever the clock reads while it runs
C20_ClockDoesNotMatter ==
    result.op = "preprocess_logs"
        => \A now \in Clock :
               preprocess_logs(result.logs, result.window_size, now) = result.ret

\* ---------------------------------------------------------------------------
\* Properties of the failure detector and of ModelService

\* C11: detect_anomaly and detect_failure return a well-formed response in
\* every detector state and for every input; when extraction raises or the
\* fitted model raises, the response is the not-detected default (false, LOW,
\* NO_ACTION, score/confidence 0) with details.error set
C11_ServiceIsTotal ==
    /\ result.op = "ModelService.detect_anomaly"
        => /\ DOMAIN result.ret = {"is_anomaly", "anomaly_score", "severity",
                                   "recommended_action", "confidence",
                                   "affected_metrics", "details"}
           /\ result.ret.is_anomaly \in BOOLEAN
           /\ result.ret.anomaly_score \in 0..Num(1)
           /\ result.ret.severity \in SeverityLevel
           /\ result.ret.recommended_action \in RemediationAction
           /\ result.ret.confidence \in 0..Num(1)
           /\ result.ret.affected_metrics \subseteq MetricTypes
           /\ (result.extraction = "raise" \/ result.model.raises)
                => /\ result.ret.is_anomaly = FALSE
                   /\ result.ret.anomaly_score = 0
                   /\ result.ret.severity = LOW
                   /\ result.ret.recommended_action = NO_ACTION
                   /\ "error" \in DOMAIN result.ret.details
    /\ result.op = "ModelService.detect_failure"
        => /\ DOMAIN result.ret = {"failure_detected", "failure_type", "severity",
                                   "recommended_actions", "confidence", "root_cause",
                                   "affected_services", "details"}
           /\ result.ret.failure_detected \in BOOLEAN
           /\ result.ret.severity \in SeverityLevel
           /\ \A i \in 1..Len(result.ret.recommended_actions) :
                 result.ret.recommended_actions[i] \in RemediationAction
           /\ result.ret.confidence \in 0..Num(1)
           /\ (\/ result.extraction = "raise"
               \/ result.model.raises
               \/ \E i \in 1..Len(result.logs) : result.logs[i].aware)
                => /\ result.ret.failure_detected = FALSE
                   /\ result.ret.severity = LOW
                   /\ result.ret.recommended_actions = <<NO_ACTION>>
                   /\ result.ret.confidence = 0
                   /\ "error" \in DOMAIN result.ret.details

C11_Witness ==
    /\ result.op = "ModelService.detect_anomaly"
    /\ result.extraction = "raise"
    /\ result.trained
    /\ result.ret.details = [error |-> MetricsError]

\* C12: an untrained FailureDetector decides in this order: error_rate > 0.2 or
\* error_count > 50 gives detected, high_error_rate, HIGH,
\* [RESTART_POD, ALERT_ADMIN], confidence 0.8, even when keyword_connection > 10
\* holds too; otherwise keyword_connection > 10 gives detected,
\* connection_timeout, MEDIUM, [RESTART_POD], confidence 0.7; otherwise not
\* detected, LOW, [NO_ACTION], confidence 0
C12_HeuristicOrder ==
    (result.op = "FailureDetector.predict" /\ ~result.trained)
        => LET Feature(k) == DictGetOr(result.feature_names, result.X, k, 0)
               r == result.ret
           IN  IF Feature("error_rate") > Pct(20) \/ Feature("error_count") > Num(50)
               THEN /\ r.failure_detected
                    /\ r.failure_type = "high_error_rate"
                    /\ r.severity = HIGH
                    /\ r.actions = <<RESTART_POD, ALERT_ADMIN>>
                    /\ r.confidence = Pct(80)
               ELSE IF Feature("keyword_connection") > Num(10)
               THEN /\ r.failure_detected
                    /\ r.failure_type = "connection_timeout"
                    /\ r.severity = MEDIUM
                    /\ r.actions = <<RESTART_POD>>
                    /\ r.confidence = Pct(70)
               ELSE /\ ~r.failure_detected
                    /\ r.severity = LOW
                    /\ r.actions = <<NO_ACTION>>
                    /\ r.confidence = 0

C12_Witness ==
    /\ result.op = "FailureDetector.predict"
    /\ ~result.trained
    /\ result.feature_names = <<"error_rate", "keyword_connection">>
    /\ result.X = <<Pct(25), Num(51)>>
    /\ result.ret.failure_type = "high_error_rate"

\* C13: when a trained FailureDetector detects a failure, failure_type is that
\* of the first matching rule in the order error_rate > 0.3 service_down,
\* keyword_timeout > 5 connection_timeout, keyword_exception > 10
\* unhandled_exception, otherwise unknown; a missing feature counts as 0
C13_FailureTypeOrder ==
    (/\ result.op = "FailureDetector.predict"
     /\ result.trained
     /\ result.ret.failure_detected)
        => LET Feature(k) == DictGetOr(result.feature_names, result.X, k, 0)
           IN  result.ret.failure_type
                   = IF Feature("error_rate") > Pct(30) THEN "service_down"
                     ELSE IF Feature("keyword_timeout") > Num(5) THEN "connection_timeout"
                     ELSE IF Feature("keyword_exception") > Num(10)
                          THEN "unhandled_exception"
                     ELSE "unknown"

C13_Witness ==
    /\ result.op = "FailureDetector.predict"
    /\ result.trained
    /\ result.ret.failure_detected
    /\ result.feature_names = <<"error_rate", "keyword_timeout">>
    /\ result.X = <<Pct(35), Num(6)>>
    /\ result.ret.failure_type = "service_down"

\* C14: for a failure detected by a trained FailureDetector the actions are the
\* table entry of the failure type (unmapped types get [ALERT_ADMIN]) with
\* ALERT_ADMIN appended last exactly when severity is HIGH or CRITICAL and it is
\* not in the entry; the list has no duplicate and does not depend on earlier
\* calls
C14_ActionsFromTable ==
    LET Entry(failure_type) ==
            IF failure_type \in {"service_down", "memory_leak"}
            THEN <<RESTART_POD, ALERT_ADMIN>>
            ELSE IF failure_type = "high_latency" THEN <<SCALE_UP, THROTTLE_API>>
            ELSE IF failure_type = "connection_timeout" THEN <<RESTART_POD, SCALE_UP>>
            ELSE <<ALERT_ADMIN>>
        Has(actions, a) == \E i \in 1..Len(actions) : actions[i] = a
        Expected(failure_type, severity) ==
            IF severity \in {HIGH, CRITICAL} /\ ~Has(Entry(failure_type), ALERT_ADMIN)
            THEN Entry(failure_type) \o <<ALERT_ADMIN>>
            ELSE Entry(failure_type)
        NoDuplicate(actions) ==
            \A i, j \in 1..Len(actions) : actions[i] = actions[j] => i = j
    IN  /\ result.op = "_recommend_remediation_actions"
            => /\ result.ret = Expected(result.failure_type, result.severity)
               /\ NoDuplicate(result.ret)
        /\ (/\ result.op = "FailureDetector.predict"
            /\ result.trained
            /\ result.ret.failure_detected)
            => /\ result.ret.actions
                    = Expected(result.ret.failure_type, result.ret.severity)
               /\ NoDuplicate(result.ret.actions)

C14_Witness ==
    /\ result.op = "FailureDetector.predict"
    /\ result.trained
    /\ result.ret.failure_detected
    /\ result.ret.failure_type = "connection_timeout"
    /\ result.ret.severity = HIGH
    /\ result.ret.actions = <<RESTART_POD, SCALE_UP, ALERT_ADMIN>>

\* C15: every failure result with failure_detected = false has failure_type
\* null, severity LOW, actions [NO_ACTION], root_cause null and no affected
\* services, on every path; every result with failure_detected = true has a
\* failure_type and a root_cause and no NO_ACTION among its actions
C15_NotDetectedShape ==
    /\ result.op = "FailureDetector.predict"
        => IF result.ret.failure_detected
           THEN /\ result.ret.failure_type # None
                /\ result.ret.root_cause # NoRootCause
                /\ \A i \in 1..Len(result.ret.actions) : result.ret.actions[i] # NO_ACTION
           ELSE /\ result.ret.failure_type = None
                /\ result.ret.severity = LOW
                /\ result.ret.actions = <<NO_ACTION>>
                /\ result.ret.root_cause = NoRootCause
                /\ result.ret.affected_services = <<>>
    /\ result.op = "ModelService.detect_failure"
        => IF result.ret.failure_detected
           THEN /\ result.ret.failure_type # None
                /\ result.ret.root_cause # NoRootCause
                /\ \A i \in 1..Len(result.ret.recommended_actions) :
                      result.ret.recommended_actions[i] # NO_ACTION
           ELSE /\ result.ret.failure_type = None
                /\ result.ret.severity = LOW
                /\ result.ret.recommended_actions = <<NO_ACTION>>
                /\ result.ret.root_cause = NoRootCause
                /\ result.ret.affected_services = <<>>

C15_Witness ==
    /\ result.op = "ModelService.detect_failure"
    /\ result.trained
    /\ result.logs # <<>>
    /\ ~result.model.raises
    /\ result.model.prediction = 0
    /\ "confidence" \in DOMAIN result.ret.details
    /\ ~result.ret.failure_detected

\* C16 as stated: with nothing extracted the service answers without asking a
\* detector; detect_failure does so exactly when the metric list is empty and
\* no log entry lies inside the window, and asks FailureDetector.predict in
\* every other case
C16_PredictInEveryOtherCase ==
    /\ (result.op = "ModelService.detect_anomaly" /\ result.metrics = <<>>)
        => result.ret = AnomalyErrorResponse("No features extracted")
    /\ result.op = "ModelService.detect_failure"
        => LET nothing ==
                   /\ result.metrics = <<>>
                   /\ \A i \in 1..Len(result.logs) :
                         result.logs[i].timestamp < result.now - failure_detection_window
               answered_without_predict ==
                   /\ "error" \in DOMAIN result.ret.details
                   /\ result.ret.details.error
                        \in {"No features extracted", NaiveAwareError, MetricsError}
           IN  /\ nothing
                    => /\ answered_without_predict
                       /\ ~result.ret.failure_detected
                       /\ result.ret.recommended_actions = <<NO_ACTION>>
               /\ ~nothing => ~answered_without_predict

\* C16: with nothing extracted the service answers without asking a detector:
\* detect_anomaly on an empty metric list returns the default with no affected
\* metrics; detect_failure returns the not-detected result without asking
\* FailureDetector.predict when the metric list is empty and no log entry lies
\* inside the window, and also when extraction raises (a log entry with a
\* timezone-aware timestamp, a failure inside preprocess_metrics); it asks
\* FailureDetector.predict in every other case
C16_PredictUnlessEmptyOrRaised ==
    /\ (result.op = "ModelService.detect_anomaly" /\ result.metrics = <<>>)
        => /\ result.ret.is_anomaly = FALSE
           /\ result.ret.anomaly_score = 0
           /\ result.ret.severity = LOW
           /\ result.ret.recommended_action = NO_ACTION
           /\ result.ret.affected_metrics = {}
           /\ result.ret.details = [error |-> "No features extracted"]
    /\ result.op = "ModelService.detect_failure"
        => LET nothing ==
                   /\ result.metrics = <<>>
                   /\ \A i \in 1..Len(result.logs) :
                         result.logs[i].timestamp < result.now - failure_detection_window
               raised ==
                   \/ result.extraction = "raise"
                   \/ \E i \in 1..Len(result.logs) : result.logs[i].aware
               not_detected ==
                   /\ ~result.ret.failure_detected
                   /\ result.ret.failure_type = None
                   /\ result.ret.severity = LOW
                   /\ result.ret.recommended_actions = <<NO_ACTION>>
                   /\ result.ret.confidence = 0
           IN  /\ raised
                    => /\ not_detected
                       /\ result.ret.details \in {[error |-> NaiveAwareError],
                                                  [error |-> MetricsError]}
               /\ (~raised /\ nothing)
                    => /\ not_detected
                       /\ result.ret.details = [error |-> "No features extracted"]
               /\ (~raised /\ ~nothing)
                    => \/ "error" \notin DOMAIN result.ret.details
                       \/ result.ret.details.error = "str(e)"

C16_Witness ==
    /\ result.op = "ModelService.detect_failure"
    /\ result.metrics = <<>>
    /\ result.extraction = "ok"
    /\ Len(result.logs) = 1
    /\ result.logs[1].aware
    /\ result.ret.details = [error |-> NaiveAwareError]

\* ---------------------------------------------------------------------------
\* Properties of feature extraction on values that are not finite, on sample
\* order and on labels

\* C21: no feature row returned by preprocess_metrics or preprocess_logs holds
\* nan, +inf or -inf, whatever the input values: a nan statistic is returned
\* as 0, +inf as 1e10 and -inf as -1e10; the std of values that are not all
\* finite is 0, and a single sample of value +inf gives mean, min, max and
\* median 1e10 and std 0
C21_RowsAreFinite ==
    /\ (result.op \in {"preprocess_metrics", "preprocess_logs"} /\ ~result.ret.raised)
        => \A i \in 1..Len(result.ret.features) :
              result.ret.features[i] \notin {float_nan, float_inf, -float_inf}
    /\ (/\ result.op = "preprocess_metrics"
        /\ ~result.ret.raised
        /\ result.metrics # <<>>
        /\ \A i \in 1..Len(result.metrics) : result.metrics[i].labels = EmptyDict)
        => LET values == {result.metrics[i].value : i \in 1..Len(result.metrics)}
               Feature(name) ==
                   result.ret.features[CHOOSE i \in 1..Len(result.ret.names) :
                                           result.ret.names[i] = name]
           IN  /\ result.ret.names # <<>>
               /\ Len(result.ret.features) = Len(result.ret.names)
               /\ Feature("cpu_usage_max")
                    = IF float_nan \in values THEN 0
                      ELSE IF float_inf \in values THEN posinf
                      ELSE IF values = {-float_inf} THEN neginf
                      ELSE Feature("cpu_usage_max")
               /\ Feature("cpu_usage_min")
                    = IF float_nan \in values THEN 0
                      ELSE IF -float_inf \in values THEN neginf
                      ELSE IF values = {float_inf} THEN posinf
                      ELSE Feature("cpu_usage_min")
               /\ (values \cap {float_nan, float_inf, -float_inf} # {})
                    => Feature("cpu_usage_std") = 0
               /\ (Len(result.metrics) = 1 /\ values = {float_inf})
                    => /\ Feature("cpu_usage_mean") = posinf
                       /\ Feature("cpu_usage_median") = posinf
                       /\ Feature("cpu_usage_rate_of_change") = 0
                       /\ Feature("cpu_usage_trend") = 0

C21_Witness ==
    /\ result.op = "preprocess_metrics"
    /\ Len(result.metrics) = 1
    /\ result.metrics[1].value = float_inf
    /\ ~result.ret.raised
    /\ \E i, j \in 1..Len(result.ret.names) :
          /\ result.ret.names[i] = "cpu_usage_mean" /\ result.ret.features[i] = posinf
          /\ result.ret.names[j] = "cpu_usage_std" /\ result.ret.features[j] = 0

\* C26 as stated: preprocess_metrics returns the same names and values for
\* every permutation of one list of samples, also when two samples of one
\* metric type carry one timestamp
C26_OrderDoesNotMatter ==
    result.op = "preprocess_metrics"
        => LET n == Len(result.metrics)
               perms == {p \in [1..n -> 1..n] :
                            \A i, j \in 1..n : i # j => p[i] # p[j]}
           IN  \A p \in perms :
                   LET permuted == List([i \in 1..n |-> result.metrics[p[i]]])
                   IN  \A order \in RowOrders(permuted) :
                           LET other == preprocess_metrics(permuted, order, result.lstsq)
                           IN  /\ other.raised = result.ret.raised
                               /\ other.names = result.ret.names
                               /\ other.features = result.ret.features

\* C30 as stated: the labels of the samples do not influence the features;
\* the list with every label removed gives the same names and values
C30_LabelsDoNotMatter ==
    result.op = "preprocess_metrics"
        => LET n == Len(result.metrics)
               unlabelled == List([i \in 1..n |->
                                     [result.metrics[i] EXCEPT !.labels = EmptyDict]])
               other == preprocess_metrics(unlabelled, result.order, result.lstsq)
           IN  result.order \in RowOrders(unlabelled)
                   => /\ other.raised = result.ret.raised
                      /\ other.names = result.ret.names
                      /\ other.features = result.ret.features

\* ---------------------------------------------------------------------------
\* Properties of the lifecycle

\* C22 as stated: a retrain is published whole.  A prediction that asks the
\* fitted model finds the detector with every sub-model fitted on the data of
\* one train call (the envelope may be left alone by a call whose data has
\* fewer rows than columns + 1), never with the forest of one call and the
\* envelope of another
C22_RetrainIsAtomic ==
    (/\ result.op \in {"AnomalyDetector.predict", "ModelService.detect_anomaly"}
     /\ result.trained)
        => LET forest == anomaly_detector.isolation_forest
           IN  /\ forest # Unfitted
               /\ \/ anomaly_detector.elliptic_envelope = forest
                  \/ forest[1] < forest[2] + 1

C24_DetectionLeavesModels ==
    [][/\ result'.op \in {"ModelService.detect_anomaly", "ModelService.detect_failure"}
            => /\ anomaly_detector' = anomaly_detector
               /\ failure_detector' = failure_detector
               /\ models_loaded' = models_loaded
       /\ anomaly_detector'.is_trained # anomaly_detector.is_trained
            => result'.op \in {"AnomalyDetector.train", "ModelService.load_models"}
       /\ failure_detector'.is_trained # failure_detector.is_trained
            => result'.op = "FailureDetector.train"
       /\ result'.op = "AnomalyDetector.train"
            => (failure_detector' = failure_detector /\ models_loaded' = models_loaded)
       /\ result'.op = "FailureDetector.train"
            => (anomaly_detector' = anomaly_detector /\ models_loaded' = models_loaded)
      ]_vars

C24_Witness ==
    /\ result.op = "ModelService.detect_failure"
    /\ "error" \in DOMAIN result.ret.details
    /\ result.logs # <<>>
    /\ models_loaded
    /\ anomaly_detector.is_trained
    /\ failure_detector.is_trained

\* C27 as stated: once is_trained is true it never becomes false again, and a
\* later train call with fewer than 10 rows or whose fit raises leaves the
\* trained detector with the model it had
C27_FailedTrainKeepsModel ==
    [][/\ anomaly_detector.is_trained => anomaly_detector'.is_trained
       /\ failure_detector.is_trained => failure_detector'.is_trained
       /\ (/\ result'.op = "AnomalyDetector.train"
           /\ anomaly_detector.is_trained
           /\ \/ result'.shape[1] < 10
              \/ result'.iso_fit = "raise"
              \/ (result'.env_fit = "raise" /\ result'.shape[1] >= result'.shape[2] + 1))
            => anomaly_detector' = anomaly_detector
       /\ (/\ result'.op = "FailureDetector.train"
           /\ failure_detector.is_trained
           /\ (result'.shape[1] < 10 \/ result'.fit = "raise"))
            => failure_detector' = failure_detector
      ]_vars

\* C25: affected_features is the list of at most 5 feature names with the
\* largest absolute values, in descending order of absolute value; names of
\* equal absolute value keep their input order, inside the list and at the
\* cut after the fifth entry; with no feature names the list is empty
C25_TopFiveByAbsoluteValue ==
    result.op = "_get_affected_features"
        => LET X == result.X
               names == result.feature_names
               ret == result.ret
               n == Min2(Len(names), Len(X))
               Pos(name) == CHOOSE i \in 1..n : names[i] = name
               Before(a, b) ==
                   \/ Abs(X[Pos(a)]) > Abs(X[Pos(b)])
                   \/ (Abs(X[Pos(a)]) = Abs(X[Pos(b)]) /\ Pos(a) < Pos(b))
               listed == {ret[q] : q \in 1..Len(ret)}
           IN  /\ Len(ret) = Min2(5, n)
               /\ listed \subseteq {names[i] : i \in 1..n}
               /\ Cardinality(listed) = Len(ret)
               /\ \A q \in 1..(Len(ret) - 1) : Before(ret[q], ret[q + 1])
               /\ \A i \in 1..n :
                     names[i] \notin listed
                        => \A q \in 1..Len(ret) : Before(ret[q], names[i])

C25_Witness ==
    /\ result.op = "_get_affected_features"
    /\ result.X = <<Num(50), Num(90), -Num(90), Num(50), Num(50), Num(50)>>
    /\ result.feature_names = SubSeq(RowNames, 1, 6)
    /\ result.ret = <<RowNames[2], RowNames[3], RowNames[1], RowNames[4], RowNames[5]>>

\* C28: in detect_failure the feature row and the name list given to
\* FailureDetector.predict are aligned, with metric features, log features,
\* both or neither present: the row has len(metric names) + len(log names)
\* columns, column i holds the value of name i, metric names and log names do
\* not coincide, and so the heuristic reads the error rate of the kept log
\* entries whatever the metrics are
C28_RowAndNamesAligned ==
    (/\ result.op = "ModelService.detect_failure"
     /\ result.extraction = "ok"
     /\ \A i \in 1..Len(result.logs) : ~result.logs[i].aware)
        => LET logs == result.logs
               kept == {i \in 1..Len(logs) :
                           logs[i].timestamp >= result.now - failure_detection_window}
               errors == {i \in kept : lower(logs[i].level) = "error"}
               connection == {i \in errors : Contains(lower(logs[i].message), "connection")}
               error_rate == IF kept = {} THEN 0
                             ELSE Num(Cardinality(errors)) \div Cardinality(kept)
               metric == preprocess_metrics(result.metrics, result.order, LstsqNotAsked)
               log == preprocess_logs(logs, failure_detection_window, result.now)
               row == combine_features(metric.features, log.features)
           IN  /\ Len(row) = Len(metric.names) + Len(log.names)
               /\ (result.metrics = <<>>) = (metric.names = <<>>)
               /\ (kept = {}) = (log.names = <<>>)
               /\ \A i \in 1..Len(metric.names) : row[i] = metric.features[i]
               /\ \A i \in 1..Len(log.names) :
                     row[Len(metric.names) + i] = log.features[i]
               /\ \A i \in 1..Len(metric.names), j \in 1..Len(log.names) :
                     metric.names[i] # log.names[j]
               /\ ~result.trained
                    => /\ result.ret.failure_detected
                            = \/ error_rate > Pct(20)
                              \/ Cardinality(errors) > 50
                              \/ Cardinality(connection) > 10
                       /\ result.ret.failure_type = "high_error_rate"
                            => result.ret.details.error_rate = error_rate

C28_Witness ==
    /\ result.op = "ModelService.detect_failure"
    /\ ~result.trained
    /\ result.extraction = "ok"
    /\ result.metrics # <<>>
    /\ Len(result.logs) = 2
    /\ result.ret.failure_detected
    /\ result.ret.failure_type = "high_error_rate"
    /\ result.ret.details.error_rate = Pct(50)

\* C29: over any sequence of load_models, detect_anomaly and detect_failure
\* calls the FailureDetector is never trained, so every detect_failure verdict
\* is the heuristic's: failure_type is null, high_error_rate or
\* connection_timeout, confidence is 0, 0.7 or 0.8 and severity is never
\* CRITICAL
C29_FailureDetectorStaysUntrained ==
    /\ ~failure_detector.is_trained
    /\ failure_detector.classifier = Unfitted
    /\ result.op = "ModelService.detect_failure"
        => /\ ~result.trained
           /\ result.ret.failure_type \in {None, "high_error_rate", "connection_timeout"}
           /\ result.ret.confidence \in {0, Pct(70), Pct(80)}
           /\ result.ret.severity # CRITICAL

C29_Witness ==
    /\ result.op = "ModelService.detect_failure"
    /\ models_loaded
    /\ anomaly_detector.is_trained
    /\ result.ret.failure_detected
    /\ result.ret.failure_type = "high_error_rate"
    /\ result.ret.confidence = Pct(80)
    /\ result.ret.severity = HIGH

====
